---------------------------- MODULE Spec2Model ----------------------------
(***************************************************************************)
(* A model of the networked coordination layer of tss-ecdsa-cli: the       *)
(* transport client (postb), the round exchange engine (broadcast,         *)
(* sendp2p, poll_for_broadcasts, poll_for_p2p), the transport encryption   *)
(* (aes_encrypt, aes_decrypt), the chain-code agreement                    *)
(* (generate_shared_chain_code) and the EdDSA DKG round machine            *)
(* (run_keygen).                                                           *)
(*                                                                         *)
(* Specifications:                                                         *)
(*   PollSpec   one caller of poll_for_broadcasts / poll_for_p2p against a *)
(*              relay that peers fill in any order, with a millisecond     *)
(*              clock and an unreliable connection;                        *)
(*   KeySpec    the envelope keys of two (round, sender, recipient,        *)
(*              session) tuples;                                           *)
(*   AeadSpec   aes_encrypt followed by aes_decrypt;                       *)
(*   Spec       party_count processes running run_keygen over one relay;   *)
(*   SignupSpec one call of signup (the signing-room signup) against a     *)
(*              relay whose answers change from poll to poll;              *)
(*   BundleSpec convert_store_file on an older key-share file, then        *)
(*              run_pubkey_or_sign on the file it wrote.                   *)
(***************************************************************************)
EXTENDS Integers, Sequences, FiniteSets, TLC

VARIABLES
    store,      \* the relay's key/value store: a function key -> value
    poll,       \* PollSpec: the caller of a polling loop (a record)
    post,       \* PollSpec: the last postb call (script, posts, result)
    keys,       \* KeySpec: two tuples and the keys formatted for them
    aead,       \* AeadSpec: key, plaintext, sealed payload, result
    cfg,        \* Spec: THRESHOLD, PARTIES and the ranges of the random draws
    relay,      \* Spec: the relay's keygen signup counter and session uuid
    party,      \* Spec: the locals of each process running run_keygen
    signing,    \* SignupSpec: the locals of one call of signup
    bundle      \* BundleSpec: an older key-share file and its conversion

vars == <<store, poll, post, keys, aead, cfg, relay, party, signing, bundle>>
dkgVars == <<cfg, relay, party>>
auxVars == <<signing, bundle>>

----------------------------------------------------------------------------
(* Bounds of the model.                                                    *)

\* the largest party count (PARTIES / n) explored
MaxParties == 3
\* the largest TSS_CLI_POLL_TIMEOUT (whole seconds) explored
MaxTimeout == 1

----------------------------------------------------------------------------
(* Program constants.                                                      *)

\* common/mod.rs:129  let retries = 3;
retries == 3
\* common/mod.rs:130  let retry_delay = time::Duration::from_millis(250);
retry_delay == 250
\* common/mod.rs:26   pub const AES_KEY_BYTES_LEN: usize = 32;
AES_KEY_BYTES_LEN == 32
\* common/mod.rs:100  let mut nonce = [0u8; 12];
NONCE_LEN == 12

----------------------------------------------------------------------------
(* Small helpers.                                                          *)

Range(s) == {s[k] : k \in 1..Len(s)}
None == [none |-> TRUE]
Some(x) == [some |-> x]
IsSome(o) == "some" \in DOMAIN o


----------------------------------------------------------------------------
(* serde_json: a value and its JSON text are different things; parsing a   *)
(* text gives back the value that was serialised.                          *)

ToJson(v) == <<"json", v>>
FromJson(text) == text[2]

----------------------------------------------------------------------------
(* Transport client (common/mod.rs, postb).                                *)
(* A connection script says, for each POST the client could issue, whether *)
(* the relay answers it ("answered") or the connection fails ("refused").  *)

NetOutcomes == {"answered", "refused"}
NetScripts == [1..retries -> NetOutcomes]
AllAnswered == [k \in 1..retries |-> "answered"]

\* The loop `for _i in 1..retries`: the range 1..retries excludes retries.
\* The first answered attempt returns Some(body); every failed attempt is
\* followed by thread::sleep(retry_delay); the exhausted range returns None.
RECURSIVE postbLoop(_, _, _)
postbLoop(script, body, i) ==
    IF i >= retries
    THEN [res |-> None, posts |-> i - 1, slept |-> (i - 1) * retry_delay]
    ELSE IF script[i] = "answered"
         THEN [res |-> Some(body), posts |-> i, slept |-> (i - 1) * retry_delay]
         ELSE postbLoop(script, body, i + 1)

\* A client that takes an answer carrying an application error for a
\* failed attempt.
postb_RetryOnError(script, body) ==
    IF "Err" \in DOMAIN FromJson(body)
    THEN postbLoop([k \in 1..retries |-> "refused"], body, 1)
    ELSE postbLoop(script, body, 1)

postb(script, body) == postbLoop(script, body, 1)

----------------------------------------------------------------------------
(* The relay's store: set(key, value) and get(key).                        *)

EmptyStore == [k \in {} |-> None]

RelaySet(st, key, value) ==
    [k \in (DOMAIN st) \cup {key} |-> IF k = key THEN value ELSE st[k]]

\* The body the relay answers a get with: Ok(Entry) or Err(ManagerError).
RelayGet(st, key) ==
    IF key \in DOMAIN st
    THEN ToJson([Ok |-> [key |-> key, value |-> st[key]]])
    ELSE ToJson([Err |-> [error |-> "Key not found"]])

\* The body the relay answers a set with: Ok(()).
RelaySetAnswer == ToJson([Ok |-> <<>>])

----------------------------------------------------------------------------
(* Envelope keys (common/mod.rs: broadcast, sendp2p and the two polls).    *)

\* format!("{}-{}-{}", party_num, round, sender_uuid)
BroadcastKey(party_num, round, sender_uuid) ==
    ToString(party_num) \o "-" \o round \o "-" \o sender_uuid

\* A point-to-point key that leaves the recipient out.
P2PKey_NoRecipient(party_from, party_to, round, sender_uuid) ==
    ToString(party_from) \o "-" \o round \o "-" \o sender_uuid

\* format!("{}-{}-{}-{}", party_from, party_to, round, sender_uuid)
P2PKey(party_from, party_to, round, sender_uuid) ==
    ToString(party_from) \o "-" \o ToString(party_to) \o "-" \o round
        \o "-" \o sender_uuid

\* A poll that reads a key without the sender's ordinal.
PollBroadcastKey_NoSender(i, party_num, round, sender_uuid) ==
    round \o "-" \o sender_uuid

\* The key poll_for_broadcasts reads for ordinal i.
PollBroadcastKey(i, party_num, round, sender_uuid) ==
    BroadcastKey(i, round, sender_uuid)

\* The key poll_for_p2p reads for ordinal i.
PollP2PKey(i, party_num, round, sender_uuid) ==
    P2PKey(i, party_num, round, sender_uuid)

\* The round names run_keygen and generate_shared_chain_code use.
RoundNames == {"round0_chain_code", "round1_chain_code", "round1", "round2",
               "round3", "round4", "round5"}


----------------------------------------------------------------------------
(* PollSpec: poll_for_broadcasts and poll_for_p2p (common/mod.rs).         *)
(* Time is in milliseconds. thread::sleep(d) takes d; Instant::elapsed()   *)
(* .as_secs() is the whole seconds of the elapsed milliseconds.            *)

Idle == [pc |-> "off"]
DkgOff == cfg = Idle /\ relay = Idle /\ party = <<>>
AuxOff == signing = Idle /\ bundle = Idle
Payloads == {"a", "b"}
Delays == {250, 1000}
PollRound(kind) == IF kind = "broadcast" THEN "round2" ELSE "round3"

as_secs(ms) == ms \div 1000

\* A loop over 1..=n without the `if i != party_num`.
NextOrdinal_NoSkip(i, party_num, n) == IF i + 1 <= n THEN i + 1 ELSE n + 1

\* `for i in 1..=n { if i != party_num { ... } }`: the ordinal polled after
\* ordinal i, n + 1 when the range is exhausted.
NextOrdinal(i, party_num, n) ==
    IF \E j \in (i + 1)..n : j # party_num
    THEN CHOOSE j \in (i + 1)..n :
             j # party_num /\ \A m \in (i + 1)..n : m # party_num => j <= m
    ELSE n + 1

\* A timer started once, before the `for`, and never restarted.
RestartTimer_Never(elapsed) == elapsed

\* `let start_time = Instant::now();` at the head of each ordinal's loop:
\* the elapsed time the loop of the next ordinal starts from.
RestartTimer(elapsed) == 0

PollKey(kind, i, party_num, round, sender_uuid) ==
    IF kind = "broadcast"
    THEN PollBroadcastKey(i, party_num, round, sender_uuid)
    ELSE PollP2PKey(i, party_num, round, sender_uuid)

\* The sleep that ends an iteration which found nothing and did not time
\* out: poll_for_broadcasts sleeps `delay` again, poll_for_p2p does not.
SleepAfter(kind, delay) == IF kind = "broadcast" THEN delay ELSE 0

\* A pass that takes an unanswered get for an entry not yet present.
PollPass_Absorb(q, st, script) ==
    LET key == PollKey(q.kind, q.i, q.party_num, q.round, q.sender_uuid)
        r == postb(script, RelayGet(st, key))
        answer == IF IsSome(r.res) THEN FromJson(r.res.some)
                  ELSE [Err |-> [error |-> "unreachable"]]
        nxt == NextOrdinal(q.i, q.party_num, q.n)
    IN  IF "Ok" \in DOMAIN answer
        THEN [q EXCEPT !.ans_vec = Append(@, answer.Ok.value), !.i = nxt,
                       !.pc = IF nxt > q.n THEN "returned" ELSE "loop",
                       !.asked = @ \cup {key}, !.last = "found"]
        ELSE [q EXCEPT !.asked = @ \cup {key},
                       !.last = IF IsSome(r.res) THEN "not_found"
                                ELSE "unreachable"]

\* A pass that looks at the clock before it looks at the answer.
PollPass_CheckFirst(q, st, script) ==
    LET key == PollKey(q.kind, q.i, q.party_num, q.round, q.sender_uuid)
        r == postb(script, RelayGet(st, key))
        t == q.elapsed + q.delay + r.slept
        w == q.since + q.delay + r.slept
        asked == q.asked \cup {key}
        nxt == NextOrdinal(q.i, q.party_num, q.n)
    IN  IF ~IsSome(r.res)
        THEN [q EXCEPT !.pc = "panic_unreachable", !.elapsed = t, !.since = w,
                       !.asked = asked, !.last = "unreachable"]
        ELSE LET answer == FromJson(r.res.some)
                 last == IF "Ok" \in DOMAIN answer THEN "found" ELSE "not_found"
             IN  IF as_secs(t) > q.timeout
                 THEN [q EXCEPT !.pc = "panic_timeout", !.elapsed = t,
                                !.since = w, !.asked = asked, !.last = last]
                 ELSE IF "Ok" \in DOMAIN answer
                 THEN [q EXCEPT !.ans_vec = Append(@, answer.Ok.value),
                                !.i = nxt,
                                !.pc = IF nxt > q.n THEN "returned" ELSE "loop",
                                !.elapsed = RestartTimer(t), !.since = 0,
                                !.asked = asked, !.last = "found"]
                 ELSE [q EXCEPT !.elapsed = t + SleepAfter(q.kind, q.delay),
                                !.since = w + SleepAfter(q.kind, q.delay),
                                !.asked = asked, !.last = "not_found"]

\* One pass through the inner `loop`: sleep, get, parse, match.
\* q is the caller's state, st the relay's store, script the connection.
PollPass(q, st, script) ==
    LET key == PollKey(q.kind, q.i, q.party_num, q.round, q.sender_uuid)
        r == postb(script, RelayGet(st, key))
        t == q.elapsed + q.delay + r.slept
        w == q.since + q.delay + r.slept
        asked == q.asked \cup {key}
    IN  IF ~IsSome(r.res)
        THEN \* postb(..).unwrap() on None
             [q EXCEPT !.pc = "panic_unreachable", !.elapsed = t, !.since = w,
                       !.asked = asked, !.last = "unreachable"]
        ELSE LET answer == FromJson(r.res.some)
             IN  IF "Ok" \in DOMAIN answer
                 THEN LET nxt == NextOrdinal(q.i, q.party_num, q.n)
                      IN  [q EXCEPT !.ans_vec = Append(@, answer.Ok.value),
                                    !.i = nxt,
                                    !.pc = IF nxt > q.n THEN "returned" ELSE "loop",
                                    !.elapsed = RestartTimer(t), !.since = 0,
                                    !.asked = asked, !.last = "found"]
                 ELSE IF as_secs(t) > q.timeout
                      THEN [q EXCEPT !.pc = "panic_timeout", !.elapsed = t,
                                     !.since = w, !.asked = asked,
                                     !.last = "not_found"]
                      ELSE [q EXCEPT !.elapsed = t + SleepAfter(q.kind, q.delay),
                                     !.since = w + SleepAfter(q.kind, q.delay),
                                     !.asked = asked, !.last = "not_found"]

\* Envelopes that are in the store and are not for this call: the caller's
\* own broadcast, and the peers' envelopes of another round, of another
\* session and for another recipient.
Decoys(kind, party_num, n, round, sender_uuid) ==
    LET own == IF kind = "broadcast"
               THEN {BroadcastKey(party_num, round, sender_uuid)}
               ELSE {P2PKey(party_num, j, round, sender_uuid) : j \in 1..n}
        others == UNION {
            {BroadcastKey(j, "round1", sender_uuid),
             BroadcastKey(j, round, "s2"),
             P2PKey(j, party_num, "round4", sender_uuid),
             P2PKey(j, party_num, round, "s2"),
             P2PKey(j, (party_num % n) + 1, round, sender_uuid)}
            : j \in 1..n }
        dk == own \cup (others \ {PollKey(kind, j, party_num, round, sender_uuid)
                                   : j \in (1..n) \ {party_num}})
    IN  [k \in dk |-> ToJson("decoy")]

PollInit ==
    /\ \E kind \in {"broadcast", "p2p"}, n \in 1..MaxParties,
          timeout \in 0..MaxTimeout, delay \in Delays :
         \E party_num \in 1..n :
            LET first == NextOrdinal(0, party_num, n)
                round == PollRound(kind)
            IN  /\ poll = [kind |-> kind, party_num |-> party_num, n |-> n,
                           round |-> round, sender_uuid |-> "s1",
                           delay |-> delay, timeout |-> timeout,
                           i |-> first, ans_vec |-> <<>>,
                           elapsed |-> 0, since |-> 0,
                           pc |-> IF first > n THEN "returned" ELSE "loop",
                           asked |-> {}, last |-> "none",
                           wrote |-> [j \in {} |-> "a"], order |-> <<>>]
                /\ store = Decoys(kind, party_num, n, round, "s1")
    /\ post = Idle
    /\ keys = Idle
    /\ aead = Idle
    /\ DkgOff
    /\ AuxOff

\* One iteration of the polling loop.
PollIteration ==
    /\ poll.pc = "loop"
    /\ \E script \in NetScripts : poll' = PollPass(poll, store, script)
    /\ UNCHANGED <<store, post, keys, aead, dkgVars, auxVars>>

\* A peer writes its envelope of the awaited round: broadcast(..) or
\* sendp2p(..) addressed to the caller.
PeerWrite ==
    /\ \E j \in (1..poll.n) \ ({poll.party_num} \cup DOMAIN poll.wrote),
          data \in Payloads :
         LET key == IF poll.kind = "broadcast"
                    THEN BroadcastKey(j, poll.round, poll.sender_uuid)
                    ELSE P2PKey(j, poll.party_num, poll.round, poll.sender_uuid)
         IN  /\ store' = RelaySet(store, key, ToJson(data))
             /\ poll' = [poll EXCEPT !.wrote =
                            [m \in (DOMAIN @) \cup {j} |->
                                IF m = j THEN ToJson(data) ELSE @[m]],
                                      !.order = Append(@, j)]
    /\ UNCHANGED <<post, keys, aead, dkgVars, auxVars>>

PollNext == PollIteration \/ PeerWrite

PollSpec == PollInit /\ [][PollNext]_vars /\ WF_vars(PollIteration)


----------------------------------------------------------------------------
(* PostSpec: one call of postb against a connection script.                *)

PostPaths == {"set", "get", "signupkeygen", "signupeddsa"}
PostBodies == {RelaySetAnswer,
               RelayGet(EmptyStore, "1-round1-s1"),
               RelayGet(RelaySet(EmptyStore, "1-round1-s1", ToJson("a")),
                        "1-round1-s1")}

PostInit ==
    /\ \E path \in PostPaths, script \in NetScripts, body \in PostBodies :
         post = [pc |-> "call", path |-> path, script |-> script,
                 body |-> body]
    /\ store = EmptyStore
    /\ poll = Idle
    /\ keys = Idle
    /\ aead = Idle
    /\ DkgOff
    /\ AuxOff

\* postb(client, path, body) runs to its return.
PostCall ==
    /\ post.pc = "call"
    /\ post' = [pc |-> "returned", path |-> post.path, script |-> post.script,
                body |-> post.body, out |-> postb(post.script, post.body)]
    /\ UNCHANGED <<store, poll, keys, aead, dkgVars, auxVars>>

PostNext == PostCall

PostSpec == PostInit /\ [][PostNext]_vars

----------------------------------------------------------------------------
(* KeySpec: the key an envelope is written under and the key a poll reads. *)
(* A tuple is (kind, sender, recipient, round, session); a broadcast has   *)
(* recipient 0 (every party).                                              *)

KeyOrdinals == {1, 2, 12}
KeyUuids == {"s1", "s2", "2-round1-s1"}
KeyTuples ==
    [kind : {"broadcast"}, from : KeyOrdinals, to : {0}, round : RoundNames,
     uuid : KeyUuids]
    \cup [kind : {"p2p"}, from : KeyOrdinals, to : KeyOrdinals,
          round : RoundNames, uuid : KeyUuids]

\* The key broadcast(..) or sendp2p(..) writes the envelope of tuple t under.
WriteKey(t) ==
    IF t.kind = "broadcast"
    THEN BroadcastKey(t.from, t.round, t.uuid)
    ELSE P2PKey(t.from, t.to, t.round, t.uuid)

\* The key the recipient's poll reads for the envelope of tuple t.
ReadKey(t) == PollKey(t.kind, t.from, t.to, t.round, t.uuid)

KeyInit ==
    /\ \E w \in KeyTuples, r \in KeyTuples :
         keys = [pc |-> "tuples", w |-> w, r |-> r]
    /\ store = EmptyStore
    /\ poll = Idle
    /\ post = Idle
    /\ aead = Idle
    /\ DkgOff
    /\ AuxOff

\* One party writes the envelope of tuple w; another polls for tuple r.
KeyFormat ==
    /\ keys.pc = "tuples"
    /\ keys' = [pc |-> "formatted", w |-> keys.w, r |-> keys.r,
                wkey |-> WriteKey(keys.w), rkey |-> ReadKey(keys.r)]
    /\ UNCHANGED <<store, poll, post, aead, dkgVars, auxVars>>

KeyNext == KeyFormat

KeySpec == KeyInit /\ [][KeyNext]_vars


----------------------------------------------------------------------------
(* Bytes (curv BigInt::to_bytes / from_bytes: big-endian, no leading       *)
(* zeros) and the AES-256-GCM of the aes_gcm crate: a stream cipher keyed  *)
(* by (key, nonce) and an authentication tag over (key, nonce, body) that  *)
(* only the same key, nonce and body reproduce.                            *)

RECURSIVE ToBytes(_)
ToBytes(x) == IF x < 256 THEN <<x>> ELSE Append(ToBytes(x \div 256), x % 256)

RECURSIVE FromBytes(_)
FromBytes(b) ==
    IF b = <<>> THEN 0
    ELSE FromBytes(SubSeq(b, 1, Len(b) - 1)) * 256 + b[Len(b)]

RECURSIVE ByteSum(_)
ByteSum(b) == IF b = <<>> THEN 0 ELSE b[1] + ByteSum(Tail(b))

\* The key stream leaves no byte of the plaintext as it is.
KeyStream(key, nonce, k) ==
    1 + ((ByteSum(key) + 7 * ByteSum(nonce) + k) % 255)
GcmTag(key, nonce, body) == <<"tag", key, nonce, body>>

\* cipher.encrypt(nonce, plaintext): the body followed by the tag.
GcmEncrypt(key, nonce, plaintext) ==
    LET body == [k \in 1..Len(plaintext) |->
                    (plaintext[k] + KeyStream(key, nonce, k)) % 256]
    IN  [body |-> body, gtag |-> GcmTag(key, nonce, body)]

\* gcm.decrypt(nonce, ciphertext): Ok(plaintext) when the tag verifies.
GcmDecrypt(key, nonce, ct) ==
    IF ct.gtag = GcmTag(key, nonce, ct.body)
    THEN [Ok |-> [k \in 1..Len(ct.body) |->
                    (ct.body[k] + 256 - KeyStream(key, nonce, k)) % 256]]
    ELSE [Err |-> "aead::Error"]

\* aes_encrypt(key, plaintext), with the nonce OsRng fills in as an input:
\* the AEAD struct keeps the nonce in its field `tag`.
aes_encrypt(key, plaintext, nonce) ==
    [ciphertext |-> GcmEncrypt(key, nonce, plaintext), tag |-> nonce]

\* A decryption that takes a fixed nonce instead of the one in the pack and
\* returns whatever the cipher gives.
aes_decrypt_FixedNonce(key, aead_pack) ==
    [Ok |-> [k \in 1..Len(aead_pack.ciphertext.body) |->
               (aead_pack.ciphertext.body[k] + 256
                    - KeyStream(key, [j \in 1..NONCE_LEN |-> 0], k)) % 256]]

\* aes_decrypt(key, aead_pack): `out.unwrap()` panics on Err.
aes_decrypt(key, aead_pack) ==
    LET out == GcmDecrypt(key, aead_pack.tag, aead_pack.ciphertext)
    IN  IF "Ok" \in DOMAIN out THEN out ELSE [panic |-> "unwrap on Err"]

\* keygen.rs:118-119: the key bytes left-padded with zeros to 32 bytes.
PadKey(key_bytes) ==
    [k \in 1..(AES_KEY_BYTES_LEN - Len(key_bytes)) |-> 0] \o key_bytes

NonceOf(x) == [k \in 1..NONCE_LEN |-> IF k = NONCE_LEN THEN x ELSE 0]

----------------------------------------------------------------------------
(* AeadSpec: a payload is sealed, possibly altered on its way through the  *)
(* relay, and unsealed with some key.                                      *)

AeadKeys == {PadKey(ToBytes(x)) : x \in {0, 1, 300}}
AeadPlaintexts == {<<>>, <<0>>, <<1>>, <<255, 1>>, <<1, 0, 255>>}
AeadNonces == {NonceOf(0), NonceOf(1)}

\* What a relay can do to a sealed payload.
Alterations(pack) ==
    {[pack EXCEPT !.ciphertext.body = @ \o <<0>>],
     [pack EXCEPT !.tag = [k \in 1..NONCE_LEN |-> (@[k] + 1) % 256]]}
    \cup (IF pack.ciphertext.body = <<>> THEN {}
          ELSE {[pack EXCEPT !.ciphertext.body[1] = (@ + 1) % 256],
                [pack EXCEPT !.ciphertext.body = Tail(@)]})

AeadInit ==
    /\ \E key \in AeadKeys, m \in AeadPlaintexts :
         aead = [pc |-> "plain", key |-> key, m |-> m]
    /\ store = EmptyStore
    /\ poll = Idle
    /\ post = Idle
    /\ keys = Idle
    /\ DkgOff
    /\ AuxOff

AeadEncrypt ==
    /\ aead.pc = "plain"
    /\ \E nonce \in AeadNonces :
         aead' = [pc |-> "sealed", key |-> aead.key, m |-> aead.m,
                  pack |-> aes_encrypt(aead.key, aead.m, nonce),
                  altered |-> FALSE]
    /\ UNCHANGED <<store, poll, post, keys, dkgVars, auxVars>>

AeadAlter ==
    /\ aead.pc = "sealed"
    /\ ~aead.altered
    /\ \E pack \in Alterations(aead.pack) :
         aead' = [aead EXCEPT !.pack = pack, !.altered = TRUE]
    /\ UNCHANGED <<store, poll, post, keys, dkgVars, auxVars>>

AeadDecrypt ==
    /\ aead.pc = "sealed"
    /\ \E dkey \in AeadKeys :
         aead' = [pc |-> "opened", key |-> aead.key, m |-> aead.m,
                  pack |-> aead.pack, altered |-> aead.altered,
                  dkey |-> dkey, out |-> aes_decrypt(dkey, aead.pack)]
    /\ UNCHANGED <<store, poll, post, keys, dkgVars, auxVars>>

AeadNext == AeadEncrypt \/ AeadAlter \/ AeadDecrypt

AeadSpec == AeadInit /\ [][AeadNext]_vars


----------------------------------------------------------------------------
(* The primitives run_keygen takes from curv and multi_party_eddsa.        *)
(* A scalar is a number modulo GroupOrder; a point is the multiple of the  *)
(* generator it is, [G |-> x] for x * G.                                   *)

\* The order of the group (Ed25519's, scaled down to a small prime).
GroupOrder == 5
PointOf(x) == [G |-> x % GroupOrder]
PointAdd(a, b) == [G |-> (a.G + b.G) % GroupOrder]
PointMul(pt, x) == [G |-> (pt.G * x) % GroupOrder]
ScalarAdd(a, b) == (a + b) % GroupOrder
\* Point::x_coord(): a BigInt of one or two bytes.
x_coord(pt) == pt.G * 263 + 17

\* serde of a Scalar<E>, and of the other payloads.
SerScalar(x) == ToJson([curve |-> "ed25519", scalar |-> x])
DeScalar(text) == FromJson(text).scalar

\* HashCommitment of the public point under a blinding factor.
Commit(y_i, blind_factor) == <<"com", y_i, blind_factor>>

\* Keys::phase1_broadcast: the commitment and its decommitment.
phase1_broadcast(y_i, blind_factor) ==
    [bc_i |-> [com |-> Commit(y_i, blind_factor)],
     decom_i |-> [blind_factor |-> blind_factor, y_i |-> y_i]]

RECURSIVE Pow(_, _)
Pow(x, k) == IF k = 0 THEN 1 ELSE (x * Pow(x, k - 1)) % GroupOrder

\* The polynomial with coefficients coefs (constant term first) at x.
RECURSIVE PolyEval(_, _, _)
PolyEval(coefs, x, k) ==
    IF k > Len(coefs) THEN 0
    ELSE (coefs[k] * Pow(x, k - 1) + PolyEval(coefs, x, k + 1)) % GroupOrder

\* VerifiableSS::share_at_indices(t, n, secret, indices) with the t random
\* coefficients coefs: the commitments to the polynomial and its shares.
share_at_indices(t, n, secret, coefs, indices) ==
    LET poly == <<secret>> \o coefs
    IN  [vss_scheme |-> [parameters |-> [threshold |-> t, share_count |-> n],
                         commitments |-> [k \in 1..Len(poly) |-> PointOf(poly[k])]],
         secret_shares |-> [k \in 1..Len(indices) |-> PolyEval(poly, indices[k], 1)]]

\* VerifiableSS::validate_share(share, index).
validate_share(vss, share, index) ==
    PointOf(share)
        = PointOf(PolyEval([k \in 1..Len(vss.commitments) |-> vss.commitments[k].G],
                           index, 1))

\* DLogProof::prove(x) with the prover's random r: a Schnorr proof.
Challenge(pk_t, pk) == 1 + ((2 * pk_t.G + pk.G) % (GroupOrder - 1))
DLogProve(x, r) ==
    LET pk == PointOf(x)
        pk_t == PointOf(r)
    IN  [pk |-> pk, pk_t_rand_commitment |-> pk_t,
         challenge_response |-> (r + Challenge(pk_t, pk) * x) % GroupOrder]

\* DLogProof::verify(proof).is_ok()
DLogVerify(proof) ==
    PointOf(proof.challenge_response)
        = PointAdd(proof.pk_t_rand_commitment,
                   PointMul(proof.pk, Challenge(proof.pk_t_rand_commitment, proof.pk)))

\* Keys::phase1_verify_com_phase2_distribute: every decommitment must open
\* its commitment; the result is the VSS of the party's own secret.
phase1_verify_com_phase2_distribute(u_i, coefs, parameters, blind_vec, y_vec, bc1_vec, parties) ==
    IF ~(Len(blind_vec) = parameters.share_count
         /\ Len(bc1_vec) = parameters.share_count
         /\ Len(y_vec) = parameters.share_count)
    THEN [panic |-> "assertion failed"]
    ELSE IF \A k \in 1..Len(bc1_vec) :
                Commit(y_vec[k], blind_vec[k]) = bc1_vec[k].com
         THEN [Ok |-> share_at_indices(parameters.threshold,
                                       parameters.share_count, u_i, coefs,
                                       parties)]
         ELSE [Err |-> "InvalidKey"]

RECURSIVE SumPoints(_)
SumPoints(v) == IF Len(v) = 1 THEN v[1] ELSE PointAdd(v[1], SumPoints(Tail(v)))

RECURSIVE SumScalars(_)
SumScalars(v) == IF Len(v) = 1 THEN v[1] ELSE ScalarAdd(v[1], SumScalars(Tail(v)))

\* Keys::phase2_verify_vss_construct_keypair: every share must validate
\* against its issuer's commitments, whose first is the issuer's point.
phase2_verify_vss_construct_keypair(parameters, y_vec, secret_shares_vec, vss_scheme_vec, index) ==
    IF ~(Len(y_vec) = parameters.share_count
         /\ Len(secret_shares_vec) = parameters.share_count
         /\ Len(vss_scheme_vec) = parameters.share_count)
    THEN [panic |-> "assertion failed"]
    ELSE IF \A k \in 1..Len(y_vec) :
                /\ validate_share(vss_scheme_vec[k], secret_shares_vec[k], index)
                /\ vss_scheme_vec[k].commitments[1] = y_vec[k]
         THEN [Ok |-> [y |-> SumPoints(y_vec), x_i |-> SumScalars(secret_shares_vec)]]
         ELSE [Err |-> "InvalidSS"]

\* curves/mod.rs verify_dlog_proofs(share_count, dlog_proofs_vec, y_vec_len).
verify_dlog_proofs(share_count, dlog_proofs_vec, y_vec_len) ==
    IF ~(y_vec_len = share_count /\ Len(dlog_proofs_vec) = share_count)
    THEN [panic |-> "assertion failed"]
    ELSE IF \A k \in 1..y_vec_len : DLogVerify(dlog_proofs_vec[k])
         THEN [Ok |-> <<>>]
         ELSE [Err |-> "InvalidKey"]

----------------------------------------------------------------------------
(* run_keygen (protocols/eddsa/keygen.rs) and generate_shared_chain_code   *)
(* (curves/mod.rs): the locals of one party and what it computes between   *)
(* two requests to the relay.                                              *)

\* keygen.rs:26  let delay = time::Duration::from_millis(25);
delay == 25
\* common/mod.rs:188  TSS_CLI_POLL_TIMEOUT .unwrap_or("30")
DefaultPollTimeout == 30
\* A sleep the scheduler stretches until the polling window has elapsed.
Oversleep == (DefaultPollTimeout + 1) * 1000

\* The locals of run_keygen before keygen_signup has answered.
InitParty ==
    [pc |-> "signup", round |-> "", panic |-> "",
     party_num_int |-> 0, uuid |-> "",
     party_keys |-> <<>>, bc_i |-> <<>>, decom_i |-> <<>>,
     chain_code_i |-> 0, cc_proof |-> <<>>, cc_proof_vec |-> <<>>,
     chain_codes |-> <<>>, chain_code |-> 0,
     i |-> 0, ans_vec |-> <<>>,
     bc1_vec |-> <<>>, point_vec |-> <<>>, blind_vec |-> <<>>,
     enc_keys |-> <<>>, y_sum |-> <<>>,
     vss_scheme |-> <<>>, secret_shares |-> <<>>, party_shares |-> <<>>,
     vss_scheme_vec |-> <<>>, shared_keys |-> <<>>,
     dlog_proof |-> <<>>, dlog_proof_vec |-> <<>>,
     keys_file |-> <<>>, last |-> "none"]

Panic(L, msg) == [L EXCEPT !.pc = "panic", !.panic = msg]

\* Vec::push(element) in the place of the insert.
VecInsert_Push(v, index, element) == Append(v, element)

\* Vec::insert(index, element), index counted from 0.
VecInsert(v, index, element) ==
    SubSeq(v, 1, index) \o <<element>> \o SubSeq(v, index + 1, Len(v))

\* `let mut j = 0; for i in 1..=PARTIES { if i == party_num_int { push(own) }
\*  else { push(answers[j]); j += 1 } }`
RECURSIVE OrdinalLoop(_, _, _, _, _, _)
OrdinalLoop(i, j, n, party_num, own, answers) ==
    IF i > n THEN <<>>
    ELSE IF i = party_num
         THEN <<own>> \o OrdinalLoop(i + 1, j, n, party_num, own, answers)
         ELSE <<answers[j + 1]>>
                 \o OrdinalLoop(i + 1, j + 1, n, party_num, own, answers)

\* exchange_data(.., data): the own value and the parsed answers of the
\* peers, in ordinal order.
exchange_data_collect(party_num, n, data, answers) ==
    OrdinalLoop(1, 0, n, party_num, data, answers)

\* `let (head, tail) = v.split_at(1); tail.iter().fold(head[0], |acc, x| acc + x)`
RECURSIVE FoldScalars(_, _)
FoldScalars(acc, tail) ==
    IF tail = <<>> THEN acc
    ELSE FoldScalars(ScalarAdd(acc, tail[1]), Tail(tail))

RECURSIVE FoldPoints(_, _)
FoldPoints(acc, tail) ==
    IF tail = <<>> THEN acc
    ELSE FoldPoints(PointAdd(acc, tail[1]), Tail(tail))

\* A fold over the tail that starts from zero and leaves the head out.
SumChainCodes_Tail(chain_codes) == FoldScalars(0, Tail(chain_codes))

\* chain_codes.split_at(1) and the fold (curves/mod.rs:72-73).
SumChainCodes(chain_codes) == FoldScalars(chain_codes[1], Tail(chain_codes))

\* point_vec.split_at(1) and the fold (keygen.rs:125-126).
SumPointVec(point_vec) == FoldPoints(point_vec[1], Tail(point_vec))

\* A transport key made of the party's own point.
EncKey_Own(y_j, private_key) == PadKey(ToBytes(x_coord(PointOf(private_key))))

\* keygen.rs:113-120: the transport key for the peer whose point is y_j.
EncKey(y_j, private_key) == PadKey(ToBytes(x_coord(PointMul(y_j, private_key))))

\* What the party writes in a broadcast round.
Payload(L, round) ==
    CASE round = "round0_chain_code" -> ToJson(L.cc_proof)
      [] round = "round1_chain_code" -> SerScalar(L.chain_code_i)
      [] round = "round1" -> ToJson(L.bc_i)
      [] round = "round2" -> ToJson(L.decom_i)
      [] round = "round4" -> ToJson(L.vss_scheme)
      [] round = "round5" -> ToJson(L.dlog_proof)

\* A share sent as it is, in the wrapping of a sealed one.
SealedShare_Clear(L, i, nonce) ==
    LET j == IF i < L.party_num_int THEN i - 1 ELSE i - 2
        key_i == L.enc_keys[j + 1]
        plaintext == ToBytes(L.secret_shares[(i - 1) + 1])
    IN  ToJson([ciphertext |-> [body |-> plaintext,
                                gtag |-> GcmTag(key_i, nonce, plaintext)],
                tag |-> nonce])

\* keygen.rs:146-148: the sealed share for ordinal i (k = i - 1, j counts
\* the other ordinals before i).
SealedShare(L, i, nonce) ==
    LET j == IF i < L.party_num_int THEN i - 1 ELSE i - 2
        key_i == L.enc_keys[j + 1]
        plaintext == ToBytes(L.secret_shares[(i - 1) + 1])
    IN  ToJson(aes_encrypt(key_i, plaintext, nonce))

\* A round that begins with its poll: the party waits for its peers before
\* it has written anything of the round.
StartRound_PollFirst(L, round, n) ==
    [L EXCEPT !.pc = "poll", !.round = round, !.ans_vec = <<>>,
              !.i = NextOrdinal(0, L.party_num_int, n)]

\* The start of the next round: a broadcast, or the round3 send loop.
StartRound(L, round, n) ==
    [L EXCEPT !.pc = "send", !.round = round, !.ans_vec = <<>>,
              !.i = IF round = "round3" THEN NextOrdinal(0, L.party_num_int, n)
                    ELSE 0]

Parsed(ans_vec) == [k \in 1..Len(ans_vec) |-> FromJson(ans_vec[k])]

\* A round 0 that goes on to the reveal without looking at the proofs.
AfterRound0cc_NoVerify(L, n) ==
    StartRound([L EXCEPT !.cc_proof_vec =
                    exchange_data_collect(L.party_num_int, n, L.cc_proof,
                                          Parsed(L.ans_vec))],
               "round1_chain_code", n)

\* curves/mod.rs:48-59: the proofs of round 0 are collected and verified.
AfterRound0cc(L, n) ==
    LET vec == exchange_data_collect(L.party_num_int, n, L.cc_proof,
                                     Parsed(L.ans_vec))
        v == verify_dlog_proofs(n, vec, n)
        L1 == [L EXCEPT !.cc_proof_vec = vec]
    IN  IF "Ok" \in DOMAIN v
        THEN StartRound(L1, "round1_chain_code", n)
        ELSE Panic(L1, "bad dlog proof for chain code")

\* A party that signs up again after the chain-code agreement and goes on
\* under the ordinal that follows its own.
AfterRound1cc_Rejoin(L, n) ==
    LET chain_codes ==
            exchange_data_collect(L.party_num_int, n, L.chain_code_i,
                [k \in 1..Len(L.ans_vec) |-> DeScalar(L.ans_vec[k])])
    IN  StartRound([L EXCEPT !.chain_codes = chain_codes,
                             !.chain_code = SumChainCodes(chain_codes),
                             !.party_num_int = (@ % n) + 1],
                   "round1", n)

\* curves/mod.rs:62-75: the chain codes are collected and summed.
AfterRound1cc(L, n) ==
    LET chain_codes ==
            exchange_data_collect(L.party_num_int, n, L.chain_code_i,
                [k \in 1..Len(L.ans_vec) |-> DeScalar(L.ans_vec[k])])
    IN  StartRound([L EXCEPT !.chain_codes = chain_codes,
                             !.chain_code = SumChainCodes(chain_codes)],
                   "round1", n)

\* keygen.rs:75-80: bc1_vec.
AfterRound1(L, n) ==
    StartRound([L EXCEPT !.bc1_vec =
                    VecInsert(Parsed(L.ans_vec), L.party_num_int - 1, L.bc_i)],
               "round2", n)

\* keygen.rs:171-186: party_shares: the own share, and the unsealed shares
\* of the peers.
Unsealed(L) ==
    [k \in 1..Len(L.ans_vec) |->
        aes_decrypt(L.enc_keys[k], FromJson(L.ans_vec[k]))]

AfterRound3(L, n) ==
    LET outs == Unsealed(L)
    IN  IF \E k \in 1..Len(outs) : "panic" \in DOMAIN outs[k]
        THEN Panic(L, "aes_decrypt: unwrap on Err")
        ELSE StartRound(
                [L EXCEPT !.party_shares =
                    OrdinalLoop(1, 0, n, L.party_num_int,
                        L.secret_shares[(L.party_num_int - 1) + 1],
                        [k \in 1..Len(outs) |->
                            FromBytes(outs[k].Ok) % GroupOrder])],
                "round4", n)

\* keygen.rs:100-138: point_vec, blind_vec, enc_keys, y_sum and the VSS of
\* the own secret; with no peer, round3 has nothing to send or to poll.
AfterRound2(L, n, t, coefs) ==
    LET decoms == Parsed(L.ans_vec)
        point_vec == OrdinalLoop(1, 0, n, L.party_num_int, L.decom_i.y_i,
                                 [k \in 1..Len(decoms) |-> decoms[k].y_i])
        blind_vec == OrdinalLoop(1, 0, n, L.party_num_int,
                                 L.decom_i.blind_factor,
                                 [k \in 1..Len(decoms) |-> decoms[k].blind_factor])
        enc_keys == [k \in 1..Len(decoms) |->
                        EncKey(decoms[k].y_i, L.party_keys.private_key)]
        y_sum == SumPointVec(point_vec)
        res == phase1_verify_com_phase2_distribute(
                   L.party_keys.private_key, coefs,
                   [threshold |-> t, share_count |-> n],
                   blind_vec, point_vec, L.bc1_vec, [k \in 1..n |-> k])
        L1 == [L EXCEPT !.point_vec = point_vec, !.blind_vec = blind_vec,
                        !.enc_keys = enc_keys, !.y_sum = y_sum]
    IN  IF "Ok" \notin DOMAIN res
        THEN Panic(L1, IF "Err" \in DOMAIN res THEN "invalid key"
                       ELSE "assertion failed")
        ELSE LET L2 == StartRound(
                          [L1 EXCEPT !.vss_scheme = res.Ok.vss_scheme,
                                     !.secret_shares = res.Ok.secret_shares],
                          "round3", n)
             IN  IF L2.i > n THEN AfterRound3(L2, n) ELSE L2

\* keygen.rs:206-229: vss_scheme_vec, the key share and its proof.
AfterRound4(L, n, t, r) ==
    LET vss_scheme_vec == OrdinalLoop(1, 0, n, L.party_num_int, L.vss_scheme,
                                      Parsed(L.ans_vec))
        res == phase2_verify_vss_construct_keypair(
                   [threshold |-> t, share_count |-> n],
                   L.point_vec, L.party_shares, vss_scheme_vec,
                   L.party_num_int)
        L1 == [L EXCEPT !.vss_scheme_vec = vss_scheme_vec]
    IN  IF "Ok" \notin DOMAIN res
        THEN Panic(L1, IF "Err" \in DOMAIN res THEN "invalid vss"
                       ELSE "assertion failed")
        ELSE StartRound([L1 EXCEPT !.shared_keys = res.Ok,
                                   !.dlog_proof = DLogProve(res.Ok.x_i, r)],
                        "round5", n)

\* A round 5 that writes the bundle without looking at the proofs.
AfterRound5_NoVerify(L, n) ==
    LET dlog_proof_vec == OrdinalLoop(1, 0, n, L.party_num_int, L.dlog_proof,
                                      Parsed(L.ans_vec))
    IN  [L EXCEPT !.dlog_proof_vec = dlog_proof_vec,
                  !.pc = "done",
                  !.keys_file = ToJson(<<L.party_keys, L.chain_code,
                                         L.shared_keys, L.party_num_int,
                                         L.vss_scheme_vec, L.y_sum>>)]

\* keygen.rs:249-280: the proofs are verified and the bundle is written.
AfterRound5(L, n) ==
    LET dlog_proof_vec == OrdinalLoop(1, 0, n, L.party_num_int, L.dlog_proof,
                                      Parsed(L.ans_vec))
        v == verify_dlog_proofs(n, dlog_proof_vec, Len(L.point_vec))
        L1 == [L EXCEPT !.dlog_proof_vec = dlog_proof_vec]
    IN  IF "Ok" \notin DOMAIN v
        THEN Panic(L1, IF "Err" \in DOMAIN v THEN "bad dlog proof"
                       ELSE "assertion failed")
        ELSE [L1 EXCEPT !.pc = "done",
                        !.keys_file = ToJson(<<L.party_keys, L.chain_code,
                                               L.shared_keys, L.party_num_int,
                                               L.vss_scheme_vec, L.y_sum>>)]

\* What run_keygen does once the poll of L.round has returned, up to its
\* next request to the relay.
AfterPoll(L, n, t, coefs, r) ==
    CASE L.round = "round0_chain_code" -> AfterRound0cc(L, n)
      [] L.round = "round1_chain_code" -> AfterRound1cc(L, n)
      [] L.round = "round1" -> AfterRound1(L, n)
      [] L.round = "round2" -> AfterRound2(L, n, t, coefs)
      [] L.round = "round3" -> AfterRound3(L, n)
      [] L.round = "round4" -> AfterRound4(L, n, t, r)
      [] L.round = "round5" -> AfterRound5(L, n)

----------------------------------------------------------------------------
(* Spec and FairSpec: n parties run run_keygen against one relay.          *)
(* cfg is the command line and the tape of the random generators, relay    *)
(* the manager's signup counter, store its key/value table, party[p] the   *)
(* locals of process p.  A clock reading is an input: the sleep of a poll  *)
(* iteration takes `delay`, or is stretched past the polling window.       *)

Procs == 1..MaxParties

\* The tapes of the random generators.
MaxSeed == 2
Seeds == 1..MaxSeed
\* What process p draws: Keys::phase1_create, the blinding factor of
\* phase1_broadcast, Scalar::random() of the chain code, the coefficients
\* of the sharing polynomial, the r of the two proofs, the AES nonce.
Tape(seed, p) ==
    [u_i |-> 1 + ((seed + p) % (GroupOrder - 1)),
     blind_factor |-> 10 * p + seed,
     chain_code_i |-> (seed * p) % GroupOrder,
     coefs |-> [k \in 1..MaxParties |-> (seed + p + k) % GroupOrder],
     r_cc |-> (seed + 2 * p) % GroupOrder,
     r |-> (2 * seed + p) % GroupOrder,
     nonce |-> NonceOf(seed + p)]

\* The network and the scheduler a run meets.
AllRefused == [k \in 1..retries |-> "refused"]
Honest == [scripts |-> {AllAnswered}, delays |-> {delay},
           corrupt |-> {FALSE}, deviations |-> {0}]
Faulty == [scripts |-> {AllAnswered, AllRefused},
           delays |-> {delay, Oversleep},
           corrupt |-> BOOLEAN, deviations |-> {0, 1}]

\* The faults one run meets: a request the relay does not answer, a
\* payload the relay alters, a sleep stretched while the peer is at work,
\* a party whose round 0 proof is for another value than the scalar it
\* reveals in round 1 (the value plus the deviation).
MaxFaults == 1
\* What a relay that alters one payload writes in its place.
Corrupt(text) ==
    LET v == FromJson(text)
        F == DOMAIN v
    IN  ToJson(
          CASE "challenge_response" \in F ->
                   [v EXCEPT !.challenge_response = (@ + 1) % GroupOrder]
            [] "scalar" \in F -> [v EXCEPT !.scalar = (@ + 1) % GroupOrder]
            [] "com" \in F -> [v EXCEPT !.com[3] = @ + 1]
            [] "y_i" \in F -> [v EXCEPT !.y_i = PointAdd(@, PointOf(1))]
            [] "commitments" \in F ->
                   [v EXCEPT !.commitments[Len(v.commitments)] =
                                 PointAdd(@, PointOf(1))]
            [] "ciphertext" \in F ->
                   [v EXCEPT !.ciphertext.body[1] = (@ + 1) % 256])

DkgInit ==
    /\ \E n \in 1..MaxParties, seed \in Seeds :
         \E t \in 0..(n - 1) :
            /\ cfg = [pc |-> "on", n |-> n, t |-> t, seed |-> seed,
                      faults |-> 0]
            /\ party = [p \in 1..n |-> InitParty]
    /\ relay = [pc |-> "on", next |-> 0, uuid |-> "s1", tampered |-> FALSE]
    /\ store = EmptyStore
    /\ poll = Idle
    /\ post = Idle
    /\ keys = Idle
    /\ aead = Idle
    /\ AuxOff

\* The environment injects k more faults.
Fault(k) ==
    /\ cfg.faults + k <= MaxFaults
    /\ cfg' = [cfg EXCEPT !.faults = @ + k]

\* What the environment may still do once its faults are spent.
Scripts(E) == IF cfg.faults < MaxFaults THEN E.scripts ELSE {AllAnswered}
Corruptions(E) == IF cfg.faults < MaxFaults THEN E.corrupt ELSE {FALSE}
Deviations(E) == IF cfg.faults < MaxFaults THEN E.deviations ELSE {0}

\* No process will write for ordinal i any more: the poll for it lasts
\* until the polling window has elapsed.
Gone(i) ==
    \A q \in DOMAIN party :
        \/ party[q].pc = "panic"
        \/ party[q].pc # "signup" /\ party[q].party_num_int # i

SleepsOf(E, i) ==
    IF cfg.faults < MaxFaults \/ Gone(i) THEN E.delays ELSE {delay}

\* The view poll_for_broadcasts / poll_for_p2p has of the caller.
PollView(L, n, d) ==
    [kind |-> IF L.round = "round3" THEN "p2p" ELSE "broadcast",
     party_num |-> L.party_num_int, n |-> n, round |-> L.round,
     sender_uuid |-> L.uuid, delay |-> d, timeout |-> DefaultPollTimeout,
     i |-> L.i, ans_vec |-> L.ans_vec, elapsed |-> 0, since |-> 0,
     pc |-> "loop", asked |-> {}, last |-> "none"]

\* A caller that does not wait for the round1 commitments of its peers
\* before it goes on to round2.
EnterPoll_NoWait(L, n, t, tape) ==
    LET first == NextOrdinal(0, L.party_num_int, n)
        L1 == [L EXCEPT !.pc = "poll", !.i = first, !.ans_vec = <<>>]
    IN  IF L.round = "round1" THEN StartRound(L, "round2", n)
        ELSE IF first > n
        THEN AfterPoll(L1, n, t, SubSeq(tape.coefs, 1, t), tape.r)
        ELSE L1

\* The caller once its envelopes of L.round are written: the poll of the
\* round, which returns at once when there is no peer.
EnterPoll(L, n, t, tape) ==
    LET first == NextOrdinal(0, L.party_num_int, n)
        L1 == [L EXCEPT !.pc = "poll", !.i = first, !.ans_vec = <<>>]
    IN  IF first > n
        THEN AfterPoll(L1, n, t, SubSeq(tape.coefs, 1, t), tape.r)
        ELSE L1

\* keygen.rs:37-46, curves/mod.rs:44-45: keygen_signup and the draws that
\* precede the first broadcast.  Processes sign up in the order of their
\* index (they are interchangeable).
Signup(p, E) ==
    /\ cfg.pc = "on" /\ p \in DOMAIN party
    /\ party[p].pc = "signup"
    /\ \A q \in 1..(p - 1) : party[q].pc # "signup"
    /\ \E script \in Scripts(E), dev \in Deviations(E) :
         LET L == party[p]
             tape == Tape(cfg.seed, p)
             number == relay.next + 1
             r == postb(script, ToJson([Ok |-> [number |-> number,
                                                uuid |-> relay.uuid]]))
         IN  IF ~IsSome(r.res)
             THEN /\ dev = 0
                  /\ Fault(1)
                  /\ party' = [party EXCEPT ![p] =
                        Panic([L EXCEPT !.last = "unreachable"],
                              "unwrap on None")]
                  /\ UNCHANGED relay
             ELSE LET signup == FromJson(r.res.some).Ok
                      y_i == PointOf(tape.u_i)
                      b == phase1_broadcast(y_i, tape.blind_factor)
                      L1 == [L EXCEPT
                               !.party_num_int = signup.number,
                               !.uuid = signup.uuid,
                               !.last = "answered",
                               !.party_keys = [u_i |-> tape.u_i, y_i |-> y_i,
                                               private_key |-> tape.u_i,
                                               party_index |-> signup.number],
                               !.bc_i = b.bc_i, !.decom_i = b.decom_i,
                               !.chain_code_i = tape.chain_code_i,
                               !.cc_proof = DLogProve(
                                   ScalarAdd(tape.chain_code_i, dev),
                                   tape.r_cc)]
                  IN  /\ party' = [party EXCEPT ![p] =
                             StartRound(L1, "round0_chain_code", cfg.n)]
                      /\ relay' = [relay EXCEPT !.next = number]
                      /\ Fault(IF dev # 0 THEN 1 ELSE 0)
    /\ UNCHANGED <<store, poll, post, keys, aead, auxVars>>

\* What the relay stores for a set: the payload, or an altered one.
Written(data, c) == IF c THEN Corrupt(data) ELSE data

\* broadcast(..) of the round (keygen.rs:58, 83, 189, 232 and
\* exchange_data): a set, then the poll of the round.
Send(p, E) ==
    /\ cfg.pc = "on" /\ p \in DOMAIN party
    /\ party[p].pc = "send" /\ party[p].round # "round3"
    /\ \E script \in Scripts(E), c \in Corruptions(E) :
         LET L == party[p]
             key == BroadcastKey(L.party_num_int, L.round, L.uuid)
             r == postb(script, RelaySetAnswer)
         IN  IF ~IsSome(r.res)
                THEN /\ ~c
                     /\ Fault(1)
                     /\ party' = [party EXCEPT ![p] =
                           Panic([L EXCEPT !.last = "unreachable"],
                                 "unwrap on None")]
                     /\ UNCHANGED <<store, relay>>
                ELSE /\ store' = RelaySet(store, key,
                                          Written(Payload(L, L.round), c))
                     /\ relay' = [relay EXCEPT !.tampered = @ \/ c]
                     /\ Fault(IF c THEN 1 ELSE 0)
                     /\ party' = [party EXCEPT ![p] =
                           EnterPoll([L EXCEPT !.last = "answered"],
                                     cfg.n, cfg.t, Tape(cfg.seed, p))]
    /\ UNCHANGED <<poll, post, keys, aead, auxVars>>

\* One sendp2p(..) of the round3 loop (keygen.rs:142-160).
SendP2P(p, E) ==
    /\ cfg.pc = "on" /\ p \in DOMAIN party
    /\ party[p].pc = "send" /\ party[p].round = "round3"
    /\ \E script \in Scripts(E), c \in Corruptions(E) :
         LET L == party[p]
             key == P2PKey(L.party_num_int, L.i, "round3", L.uuid)
             data == SealedShare(L, L.i, Tape(cfg.seed, p).nonce)
             r == postb(script, RelaySetAnswer)
             nxt == NextOrdinal(L.i, L.party_num_int, cfg.n)
         IN  IF ~IsSome(r.res)
                THEN /\ ~c
                     /\ Fault(1)
                     /\ party' = [party EXCEPT ![p] =
                           Panic([L EXCEPT !.last = "unreachable"],
                                 "unwrap on None")]
                     /\ UNCHANGED <<store, relay>>
                ELSE /\ store' = RelaySet(store, key, Written(data, c))
                     /\ relay' = [relay EXCEPT !.tampered = @ \/ c]
                     /\ Fault(IF c THEN 1 ELSE 0)
                     /\ party' = [party EXCEPT ![p] =
                           IF nxt > cfg.n
                           THEN EnterPoll([L EXCEPT !.last = "answered"],
                                          cfg.n, cfg.t, Tape(cfg.seed, p))
                           ELSE [L EXCEPT !.last = "answered", !.i = nxt]]
    /\ UNCHANGED <<poll, post, keys, aead, auxVars>>

\* One iteration of the poll of the round and, when the last peer has
\* answered, what run_keygen does up to its next request.
Poll(p, E) ==
    /\ cfg.pc = "on" /\ p \in DOMAIN party
    /\ party[p].pc = "poll"
    /\ \E script \in Scripts(E), d \in SleepsOf(E, party[p].i) :
         \E q \in {PollPass(PollView(party[p], cfg.n, d), store, script)} :
           \E L1 \in {[party[p] EXCEPT !.i = q.i, !.ans_vec = q.ans_vec,
                                       !.last = q.last]} :
             /\ Fault(IF \/ q.pc = "panic_unreachable"
                         \/ q.pc = "panic_timeout" /\ ~Gone(party[p].i)
                      THEN 1 ELSE 0)
             /\ party' = [party EXCEPT ![p] =
                 CASE q.pc = "panic_unreachable" -> Panic(L1, "unwrap on None")
                   [] q.pc = "panic_timeout" -> Panic(L1, "Polling timed out!")
                   [] q.pc = "loop" -> L1
                   [] q.pc = "returned" ->
                        AfterPoll(L1, cfg.n, cfg.t,
                                  SubSeq(Tape(cfg.seed, p).coefs, 1, cfg.t),
                                  Tape(cfg.seed, p).r)]
    /\ UNCHANGED <<store, relay, poll, post, keys, aead, auxVars>>

Next ==
    \E p \in Procs :
        \/ Signup(p, Faulty)
        \/ Send(p, Faulty)
        \/ SendP2P(p, Faulty)
        \/ Poll(p, Faulty)

Spec == DkgInit /\ [][Next]_vars

\* The run of C1: every request is answered, nothing is altered, no sleep
\* is stretched, and the processes keep running.
FairNext ==
    \E p \in Procs :
        \/ Signup(p, Honest)
        \/ Send(p, Honest)
        \/ SendP2P(p, Honest)
        \/ Poll(p, Honest)

FairSpec ==
    /\ DkgInit
    /\ [][FairNext]_vars
    /\ WF_vars(FairNext)

----------------------------------------------------------------------------
(* SignupSpec: signup (common/mod.rs:274-335), the signing-room signup.    *)
(* The relay answers each request with a SigningPartySignup (the party's   *)
(* order, the room uuid, empty until the room is complete, and the count   *)
(* of joined parties) or with a ManagerError.  Time is in milliseconds.    *)

\* common/mod.rs:282  let delay = time::Duration::from_millis(100);
signup_delay == 100
\* the largest TSS_CLI_SIGNUP_TIMEOUT (whole seconds) explored
MaxSignupTimeout == 1
\* the largest joined count the relay reports
MaxJoined == 3
\* the largest number of times the reported count changes during one call
MaxChanges == 2

\* The bodies the relay may answer a request with, uuids being the party
\* uuids it may return.
SignupAnswers(uuids) ==
    {ToJson([Ok |-> [party_order |-> o, party_uuid |-> pu,
                     room_uuid |-> u, total_joined |-> j]]) :
        o \in 1..2, pu \in uuids, u \in {"", "room1"}, j \in 1..MaxJoined}
    \cup {ToJson([Err |-> [error |-> "Room is full"]])}

\* What comes back on a connection: one of the answers, or, when every
\* attempt is refused, nothing (the body is then of no account).
BodiesOn(script, answers) ==
    IF script = AllAnswered THEN answers
    ELSE {ToJson([Err |-> [error |-> "Room is full"]])}

\* What one pass of the loop takes: the sleep, or a sleep the scheduler
\* stretches to a second.
SignupSleeps == {signup_delay, 1000}

\* A signup that keeps the order of the first answer.
AdoptOrder_Keep(number, party_order) == number

\* common/mod.rs:304-307: `if party_signup.number != party_order { .. }`
AdoptOrder(number, party_order) ==
    IF number # party_order THEN party_order ELSE number

\* A loop without the assignment at its head: the request carries the
\* party_uuid of the latest answer.
LoopRequestUuid_Latest(first_party_uuid, request_party_uuid) ==
    request_party_uuid

\* common/mod.rs:298  request_body.party_uuid = party_uuid.clone();
\* party_uuid being the binding of the first answer (288), which the
\* binding of the loop's own match arm (302) does not reach.
LoopRequestUuid(first_party_uuid, request_party_uuid) == first_party_uuid

\* A signup that never restarts its timer.
ResetOn_Never(total_joined, last_total_joined) == FALSE

\* common/mod.rs:309: `if total_joined != last_total_joined`
ResetOn(total_joined, last_total_joined) == total_joined # last_total_joined

\* A loop without the break.
TimedOut_Never(elapsed, timeout) == FALSE

\* common/mod.rs:320: `if now.elapsed().unwrap().as_secs() > timeout`
TimedOut(elapsed, timeout) == as_secs(elapsed) > timeout

\* common/mod.rs:285-295: the first request and the locals it sets.
signup_first(q0, script, body) ==
    LET r == postb(script, body)
        q == [q0 EXCEPT !.sent = q0.request_party_uuid]
    IN  IF ~IsSome(r.res)
        THEN [q EXCEPT !.pc = "panic", !.panic = "unwrap on None"]
        ELSE LET answer == FromJson(r.res.some)
             IN  IF "Err" \in DOMAIN answer
                 THEN [q EXCEPT !.pc = "panic", !.panic = answer.Err.error]
                 ELSE [q EXCEPT
                         !.number = answer.Ok.party_order,
                         !.party_uuid = answer.Ok.party_uuid,
                         !.uuid = answer.Ok.room_uuid,
                         !.last_total_joined = answer.Ok.total_joined,
                         !.elapsed = 0,
                         !.pc = IF answer.Ok.room_uuid = "" THEN "loop"
                                ELSE "returned"]

\* common/mod.rs:296-326: one pass of `while party_signup.uuid.is_empty()`,
\* which takes d milliseconds, and what follows the loop when it ends.
signup_pass(q0, script, body, d) ==
    LET r == postb(script, body)
        carried == LoopRequestUuid(q0.party_uuid, q0.request_party_uuid)
        q == [q0 EXCEPT !.overwrote = q0.request_party_uuid,
                        !.request_party_uuid = carried, !.sent = carried]
        t == q.elapsed + d + r.slept
    IN  IF ~IsSome(r.res)
        THEN [q EXCEPT !.pc = "panic", !.panic = "unwrap on None",
                       !.elapsed = t]
        ELSE LET answer == FromJson(r.res.some)
             IN  IF "Err" \in DOMAIN answer
                 THEN [q EXCEPT !.pc = "panic", !.panic = answer.Err.error,
                                !.elapsed = t]
                 ELSE LET a == answer.Ok
                          reset == ResetOn(a.total_joined, q.last_total_joined)
                          t1 == IF reset THEN 0 ELSE t
                          ended == a.room_uuid # "" \/ TimedOut(t1, q.timeout)
                      IN  [q EXCEPT
                             !.request_party_uuid = a.party_uuid,
                             !.number = AdoptOrder(@, a.party_order),
                             !.uuid = a.room_uuid,
                             !.last_total_joined =
                                 IF reset THEN a.total_joined ELSE @,
                             !.elapsed = t1,
                             !.pc = IF ~ended THEN "loop"
                                    ELSE IF a.room_uuid = "" THEN "panic"
                                    ELSE "returned",
                             !.panic = IF ended /\ a.room_uuid = ""
                                       THEN "Could not get room uuid"
                                       ELSE @]

SignupInit ==
    /\ \E timeout \in 0..MaxSignupTimeout :
         signing = [pc |-> "call", timeout |-> timeout, panic |-> "",
                    number |-> 0, uuid |-> "", last_total_joined |-> 0,
                    elapsed |-> 0,
                    party_uuid |-> "", request_party_uuid |-> "",
                    sent |-> "none", overwrote |-> "none",
                    heard |-> <<>>, first_order |-> 0, first_uuid |-> "",
                    still |-> 0, changes |-> 0]
    /\ store = EmptyStore
    /\ poll = Idle
    /\ post = Idle
    /\ keys = Idle
    /\ aead = Idle
    /\ bundle = Idle
    /\ DkgOff

\* What the caller has heard so far, with the answer just received: the
\* last answer, the order in the first one, the time since the reported
\* count last changed, and how often it changed.
Hearing(g, q, script, body, d) ==
    LET answer == FromJson(body)
        a == answer.Ok
        first == g.heard = <<>>
    IN  IF ~IsSome(postb(script, body).res) \/ "Ok" \notin DOMAIN answer
        THEN q
        ELSE [q EXCEPT
                !.heard = a,
                !.first_order = IF first THEN a.party_order ELSE @,
                !.first_uuid = IF first THEN a.party_uuid ELSE @,
                !.still = IF ~first /\ a.total_joined = g.heard.total_joined
                          THEN @ + d ELSE 0,
                !.changes = IF ~first /\ a.total_joined # g.heard.total_joined
                            THEN @ + 1 ELSE @]

\* signup up to the head of its loop.  The party uuids are opaque and
\* interchangeable: the first one the relay returns is called p1.
SignupCall ==
    /\ signing.pc = "call"
    /\ \E script \in {AllAnswered, AllRefused} :
        \E body \in BodiesOn(script, SignupAnswers({"p1"})) :
         \E q \in {signup_first(signing, script, body)} :
            signing' = Hearing(signing, q, script, body, 0)
    /\ UNCHANGED <<store, poll, post, keys, aead, dkgVars, bundle>>

\* One pass of the loop.
SignupIteration ==
    /\ signing.pc = "loop"
    /\ \E script \in {AllAnswered, AllRefused}, d \in SignupSleeps :
        \E body \in BodiesOn(script, SignupAnswers({"p1", "p2"})) :
         \E q \in {signup_pass(signing, script, body, d)} :
            \E h \in {Hearing(signing, q, script, body, d)} :
               /\ h.changes <= MaxChanges
               /\ signing' = h
    /\ UNCHANGED <<store, poll, post, keys, aead, dkgVars, bundle>>

SignupNext == SignupCall \/ SignupIteration

SignupSpec == SignupInit /\ [][SignupNext]_vars /\ WF_vars(SignupNext)

----------------------------------------------------------------------------
(* BundleSpec: convert_store_file (protocols/ecdsa/curv7_conversion.rs)    *)
(* and the reading of the key-share file by run_pubkey_or_sign             *)
(* (protocols/ecdsa/mod.rs).  A file is the JSON of a tuple; serde reads   *)
(* a tuple back only into as many elements of the types it was written     *)
(* with, so an element is kept with its type.  The older version wrote a   *)
(* scalar as the hex digits of its value, without leading zeros, and a     *)
(* point as the hex digits of its two coordinates.                         *)

\* The order of the secp256k1 group (ecdsa/mod.rs:23), scaled down.
SecpOrder == 19
SecpPoint(k) == [G |-> k % SecpOrder]
\* GE::generator() * chain_code
SecpMul(pt, x) == [G |-> (pt.G * x) % SecpOrder]
SecpGenerator == SecpPoint(1)

Typed(type, v) == [type |-> type, v |-> v]
TypesOf(tuple) == [k \in 1..Len(tuple) |-> tuple[k].type]

\* BigInt::to_hex / BigInt::from_hex: a sequence of digits 0..15.
RECURSIVE ToHex(_)
ToHex(x) == IF x < 16 THEN <<x>> ELSE Append(ToHex(x \div 16), x % 16)

RECURSIVE FromHex(_)
FromHex(h) ==
    IF h = <<>> THEN 0 ELSE FromHex(SubSeq(h, 1, Len(h) - 1)) * 16 + h[Len(h)]

\* hex::decode: two digits a byte; an odd number of digits is an error.
hex_decode(h) ==
    IF Len(h) % 2 # 0 THEN [Err |-> "OddLength"]
    ELSE [Ok |-> [k \in 1..(Len(h) \div 2) |-> h[2 * k - 1] * 16 + h[2 * k]]]

\* The coordinates of the point k * G (k not 0).
SecpX(k) == k * 263 + 17
SecpY(k) == k * 31 + 5
\* The older serialisation of a point.
OldGE(pt) == [x |-> ToHex(SecpX(pt.G)), y |-> ToHex(SecpY(pt.G))]

\* curv7_conversion.rs:43-48: GE::from_coords(x, y).unwrap()
convert_old_GE(old) ==
    LET old_x == FromHex(old.x)
        old_y == FromHex(old.y)
        on_curve == {k \in 1..(SecpOrder - 1) :
                        SecpX(k) = old_x /\ SecpY(k) = old_y}
    IN  IF on_curve = {} THEN [panic |-> "unwrap on Err"]
        ELSE SecpPoint(CHOOSE k \in on_curve : TRUE)

\* A conversion that decodes the digits as they are.
convert_old_FE_NoPad(old) ==
    FromBytes([k \in 1..(Len(old) \div 2) |-> old[2 * k - 1] * 16 + old[2 * k]])
        % SecpOrder

\* curv7_conversion.rs:50-57: a leading '0' when the digits are odd in
\* number, hex::decode(..).unwrap(), FE::from_bytes(..).unwrap().
convert_old_FE(old) ==
    LET padded == IF Len(old) % 2 # 0 THEN <<0>> \o old ELSE old
        old_bytes == hex_decode(padded)
    IN  FromBytes(old_bytes.Ok) % SecpOrder

\* curv7_conversion.rs:59-66
convert_old_vss(vss) ==
    [parameters |-> vss.parameters,
     commitments |-> [k \in 1..Len(vss.commitments) |->
                         convert_old_GE(vss.commitments[k])]]

OldTypes == <<"OldKeys", "OldSharedKeys", "u16", "Vec<OldVerifiableSS>",
              "Vec<EncryptionKey>", "OldGE">>
NewTypes == <<"Keys", "Scalar", "SharedKeys", "u16", "Vec<VerifiableSS>",
              "Vec<EncryptionKey>", "GE">>

\* curv7_conversion.rs:113  Scalar::<Secp256k1>::from(1 as u16)
fixed_chain_code == 1

\* curv7_conversion.rs:68-127: the text written to destination_path, or the
\* panic of serde_json::from_str(&data).unwrap().
convert_store_file(data) ==
    LET old == FromJson(data)
    IN  IF TypesOf(old) # OldTypes THEN [panic |-> "unwrap on Err"]
        ELSE
        LET old_party_keys == old[1].v
            old_shared_keys == old[2].v
            party_id == old[3].v
            old_vss_scheme_vec == old[4].v
            paillier_key_vector == old[5].v
            old_y_sum == old[6].v
            party_keys == [u_i |-> convert_old_FE(old_party_keys.u_i),
                           y_i |-> convert_old_GE(old_party_keys.y_i),
                           dk |-> old_party_keys.dk,
                           ek |-> old_party_keys.ek,
                           party_index |-> old_party_keys.party_index]
            shared_keys == [y |-> convert_old_GE(old_shared_keys.y),
                            x_i |-> convert_old_FE(old_shared_keys.x_i)]
            public_key == convert_old_GE(old_y_sum)
            vss_scheme_vector ==
                [k \in 1..Len(old_vss_scheme_vec) |->
                    convert_old_vss(old_vss_scheme_vec[k])]
        IN  [Ok |-> ToJson(<<Typed("Keys", party_keys),
                             Typed("Scalar", fixed_chain_code),
                             Typed("SharedKeys", shared_keys),
                             Typed("u16", party_id),
                             Typed("Vec<VerifiableSS>", vss_scheme_vector),
                             Typed("Vec<EncryptionKey>", paillier_key_vector),
                             Typed("GE", public_key)>>)]

\* ecdsa/mod.rs:72-105: what run_pubkey_or_sign reads from the file and the
\* chain-code point it hands to hd_keys::get_hd_key when a path is given.
run_pubkey_or_sign(data, path, chain_code_hex) ==
    LET v == FromJson(data)
    IN  IF TypesOf(v) # NewTypes THEN [panic |-> "unwrap on Err"]
        ELSE
        LET chain_code ==
                IF chain_code_hex # <<>>
                THEN FromBytes(hex_decode(chain_code_hex).Ok) % SecpOrder
                ELSE v[2].v
        IN  [Ok |-> [party_keys |-> v[1].v, chain_code |-> chain_code,
                     shared_keys |-> v[3].v, party_id |-> v[4].v,
                     vss_scheme_vec |-> v[5].v,
                     paillier_key_vector |-> v[6].v, y_sum |-> v[7].v,
                     hd_chain_code |-> IF path = "" THEN <<>>
                                       ELSE SecpMul(SecpGenerator, chain_code)]]

\* The file the older version wrote for the key share of a party.
OldFile(k) ==
    LET vss(a, b) == [parameters |-> [threshold |-> 1, share_count |-> 2],
                      commitments |-> <<OldGE(SecpPoint(a)), OldGE(SecpPoint(b))>>]
    IN  ToJson(<<
          Typed("OldKeys", [u_i |-> ToHex(k.u_i), y_i |-> OldGE(SecpPoint(k.u_i)),
                            dk |-> "dk", ek |-> "ek1", party_index |-> k.party_id]),
          Typed("OldSharedKeys", [y |-> OldGE(SecpPoint(k.y)), x_i |-> ToHex(k.x_i)]),
          Typed("u16", k.party_id),
          Typed("Vec<OldVerifiableSS>", <<vss(k.u_i, k.x_i), vss(k.y, k.u_i)>>),
          Typed("Vec<EncryptionKey>", <<"ek1", "ek2">>),
          Typed("OldGE", OldGE(SecpPoint(k.y)))>>)

BundleInit ==
    /\ \E u_i \in 1..(SecpOrder - 1), x_i \in {2, 17}, party_id \in 1..2 :
         LET k == [u_i |-> u_i, x_i |-> x_i, party_id |-> party_id,
                   y |-> 1 + ((u_i + x_i) % (SecpOrder - 1))]
         IN  bundle = [pc |-> "old", key |-> k, file |-> OldFile(k)]
    /\ store = EmptyStore
    /\ poll = Idle
    /\ post = Idle
    /\ keys = Idle
    /\ aead = Idle
    /\ signing = Idle
    /\ DkgOff

\* convert_store_file(keys_file_path, destination_path)
Convert ==
    /\ bundle.pc = "old"
    /\ bundle' = [pc |-> "converted", key |-> bundle.key, file |-> bundle.file,
                  written |-> convert_store_file(bundle.file)]
    /\ UNCHANGED <<store, poll, post, keys, aead, dkgVars, signing>>

\* run_pubkey_or_sign("pubkey", destination_path, path, .., chain_code_hex)
ReadBack ==
    /\ bundle.pc = "converted"
    /\ "Ok" \in DOMAIN bundle.written
    /\ \E path \in {"", "1/2/3"}, chain_code_hex \in {<<>>, <<0, 7>>} :
         bundle' = [pc |-> "read", key |-> bundle.key, file |-> bundle.file,
                    written |-> bundle.written, path |-> path,
                    chain_code_hex |-> chain_code_hex,
                    out |-> run_pubkey_or_sign(bundle.written.Ok, path,
                                               chain_code_hex)]
    /\ UNCHANGED <<store, poll, post, keys, aead, dkgVars, signing>>

BundleNext == Convert \/ ReadBack

BundleSpec == BundleInit /\ [][BundleNext]_vars

----------------------------------------------------------------------------
(* Claims about the polling loops (PollSpec).                              *)

\* The sender ordinal at position k of a sequence that lists the ordinals
\* 1..n in ascending order without party_num.
SkipSelf(k, party_num) == IF k < party_num THEN k ELSE k + 1

\* C3: a poll for an ordinal that never writes does not hang: it ends in a
\* fatal state, and the fatal timeout is raised only when the whole seconds
\* elapsed since polling for that ordinal began exceed the timeout, the time
\* spent on earlier ordinals not counting.
C3_PollTimeout ==
    /\ [](poll.pc = "panic_timeout" => as_secs(poll.since) > poll.timeout)
    /\ \A j \in 1..MaxParties :
         (poll.pc = "loop" /\ poll.i = j)
            ~> (j \in DOMAIN poll.wrote
                \/ poll.pc \in {"panic_timeout", "panic_unreachable"})

C3_Witness ==
    /\ poll.pc = "panic_timeout"
    /\ poll.n = 3
    /\ Len(poll.ans_vec) = 1
    /\ poll.i \notin DOMAIN poll.wrote

\* C4: poll_for_broadcasts never asks for the caller's own key and returns
\* n - 1 values, the one at position k being the payload the k-th other
\* ordinal (ascending) wrote, whatever the order of the writes.
C4_PollOrder ==
    poll.kind = "broadcast" =>
        /\ BroadcastKey(poll.party_num, poll.round, poll.sender_uuid)
              \notin poll.asked
        /\ poll.pc = "returned" =>
              /\ Len(poll.ans_vec) = poll.n - 1
              /\ \A k \in 1..(poll.n - 1) :
                    /\ SkipSelf(k, poll.party_num) \in DOMAIN poll.wrote
                    /\ poll.ans_vec[k] = poll.wrote[SkipSelf(k, poll.party_num)]

C4_Witness ==
    /\ poll.kind = "broadcast"
    /\ poll.pc = "returned"
    /\ poll.n = 3
    /\ poll.party_num = 2
    /\ poll.order = <<3, 1>>
    /\ poll.ans_vec = <<ToJson("a"), ToJson("b")>>

\* The caller of the other polling loop in the same position: the same
\* arguments, the same answers collected and the same time elapsed.
OtherLoop(q) ==
    [q EXCEPT !.kind = IF q.kind = "broadcast" THEN "p2p" ELSE "broadcast"]

\* A store that answers the keys of the other loop as st answers the keys
\* of q's loop.
OtherStore(q, st) ==
    LET o == OtherLoop(q)
        there == {j \in (1..q.n) \ {q.party_num} :
                     PollKey(q.kind, j, q.party_num, q.round, q.sender_uuid)
                         \in DOMAIN st}
    IN  [k \in {PollKey(o.kind, j, o.party_num, o.round, o.sender_uuid) :
                   j \in there} |->
            st[PollKey(q.kind,
                       CHOOSE j \in there :
                           PollKey(o.kind, j, o.party_num, o.round,
                                   o.sender_uuid) = k,
                       q.party_num, q.round, q.sender_uuid)]]

\* What a pass of a polling loop shows apart from the key it read.
PassOutcome(q) ==
    [pc |-> q.pc, i |-> q.i, ans_vec |-> q.ans_vec, elapsed |-> q.elapsed,
     since |-> q.since, last |-> q.last]

\* C21: from the same position, with the same relay answer, delay and
\* timeout, a pass of poll_for_p2p and a pass of poll_for_broadcasts end
\* alike: the same ordinal is asked next, the same time has been slept
\* (delay before the attempt and delay after it), the same timeout decision
\* is taken and the same values are collected in the same order.
C21_SameBehaviour ==
    poll.pc = "loop" =>
        \A script \in NetScripts :
            /\ PassOutcome(PollPass(poll, store, script))
                  = PassOutcome(PollPass(OtherLoop(poll),
                                         OtherStore(poll, store), script))
            /\ LET after == PollPass(poll, store, script)
               IN  (after.pc = "loop" /\ after.last = "not_found") =>
                      after.elapsed = poll.elapsed + 2 * poll.delay
                                         + postb(script, "x").slept

\* C26: in a pass of either loop a value the relay holds under the awaited
\* key, if the relay answers at all, is appended and the loop goes on to the
\* next ordinal, however long the poll for this ordinal has lasted; the
\* fatal timeout follows a "not found" answer only, and only when the whole
\* seconds elapsed since the poll for the ordinal began are more than the
\* timeout.
C26_TimeoutAfterMiss ==
    [][(poll.pc = "loop" /\ store' = store /\ poll' # poll) =>
          LET key == PollKey(poll.kind, poll.i, poll.party_num, poll.round,
                             poll.sender_uuid)
          IN  /\ (key \in DOMAIN store /\ poll'.last # "unreachable") =>
                    /\ poll'.last = "found"
                    /\ poll'.ans_vec = Append(poll.ans_vec, store[key])
                    /\ poll'.pc \in {"loop", "returned"}
                    /\ poll'.i > poll.i
              /\ poll'.pc = "panic_timeout" =>
                    /\ key \notin DOMAIN store
                    /\ poll'.last = "not_found"
                    /\ as_secs(poll'.since) > poll.timeout
              /\ (poll'.last = "not_found" /\ poll'.pc # "panic_timeout") =>
                    poll'.pc = "loop" /\ poll'.ans_vec = poll.ans_vec]_vars

\* With a timeout of 0 and a delay of one second the window of an ordinal
\* has elapsed at its first get: poll_for_p2p has all the same collected
\* the values of its two peers.
C26_Witness ==
    /\ poll.kind = "p2p" /\ poll.pc = "returned"
    /\ poll.timeout = 0 /\ poll.delay = 1000
    /\ poll.n = 3 /\ Len(poll.ans_vec) = 2

----------------------------------------------------------------------------
(* Claims about the envelope keys (KeySpec).                               *)

\* C6: the key an envelope is written under equals the key a poll reads
\* only when both are for the same (kind, sender, recipient, round,
\* session) tuple.
C6_KeysUnique ==
    keys.pc = "formatted" => (keys.wkey = keys.rkey => keys.w = keys.r)

C6_Witness ==
    /\ keys.pc = "formatted"
    /\ keys.w.kind = "broadcast"
    /\ keys.r.kind = "p2p"
    /\ keys.w.from = keys.r.from
    /\ keys.w.uuid = "2-round1-s1"
    /\ keys.r.uuid = "s1"
    /\ keys.wkey # keys.rkey

----------------------------------------------------------------------------
(* Claims about postb (PostSpec).                                          *)

\* C7: postb reaches the relay whenever one of three attempts is answered,
\* and reports None only after three failed attempts.
C7_ThreeAttempts ==
    post.pc = "returned" =>
        (IsSome(post.out.res)
            <=> \E k \in 1..3 : post.script[k] = "answered")

\* C20: the first attempt the relay answers ends the call: its body is
\* what postb returns, an application error such as "Key not found"
\* included, and no POST is issued after it.
C20_NoRetryAfterAnswer ==
    post.pc = "returned" =>
        \A k \in 1..(retries - 1) :
            (/\ post.script[k] = "answered"
             /\ \A m \in 1..(k - 1) : post.script[m] = "refused")
                => /\ post.out.res = Some(post.body)
                   /\ post.out.posts = k

\* The relay answers the second attempt of a get with "Key not found".
C20_Witness ==
    /\ post.pc = "returned"
    /\ post.path = "get"
    /\ post.script = <<"refused", "answered", "answered">>
    /\ "Err" \in DOMAIN FromJson(post.body)
    /\ post.out.res = Some(RelayGet(EmptyStore, "1-round1-s1"))
    /\ post.out.posts = 2

----------------------------------------------------------------------------
(* Claims about the sealed payloads (AeadSpec).                            *)

\* C9: unsealing with the sealing key gives back the plaintext; unsealing
\* with another key, or an altered ciphertext or nonce, panics.
C9_AeadRoundTrip ==
    aead.pc = "opened" =>
        IF aead.dkey = aead.key /\ ~aead.altered
        THEN aead.out = [Ok |-> aead.m]
        ELSE "panic" \in DOMAIN aead.out

C9_Witness ==
    /\ aead.pc = "opened"
    /\ aead.dkey = aead.key
    /\ ~aead.altered
    /\ aead.m = <<1, 0, 255>>
    /\ aead.pack.tag = NonceOf(1)
    /\ aead.out = [Ok |-> <<1, 0, 255>>]


----------------------------------------------------------------------------
(* Claims about run_keygen and generate_shared_chain_code (Spec, FairSpec). *)

\* The process that signed up as ordinal k.
Owner(k) == party[CHOOSE q \in DOMAIN party : party[q].party_num_int = k]
Joined(k) == \E q \in DOMAIN party : party[q].party_num_int = k

Persisted(L) == L.keys_file # <<>>
\* The group public key in the bundle a party has written.
BundleYSum(L) == FromJson(L.keys_file)[6]

AllPersisted == \A p \in DOMAIN party : party[p].pc = "done" /\ Persisted(party[p])

\* C1: with honest parties and a relay that stores every set and answers
\* every get, for every threshold below the party count every party ends
\* by writing its bundle, and all the bundles carry the same group public
\* key.
C1_KeygenTerminates ==
    <>(/\ AllPersisted
       /\ \A p, q \in DOMAIN party :
             BundleYSum(party[p]) = BundleYSum(party[q]))

C1_Witness ==
    /\ AllPersisted
    /\ cfg.n = 3 /\ cfg.t = 2
    /\ BundleYSum(party[1]) = BundleYSum(party[3])
    /\ BundleYSum(party[1]) = SumPoints([k \in 1..3 |-> party[k].party_keys.y_i])


\* What run_keygen checks, recomputed on the vectors a party holds.
CommitmentsOpen(L) ==
    \A k \in 1..Len(L.point_vec) :
        Commit(L.point_vec[k], L.blind_vec[k]) = L.bc1_vec[k].com
SharesValid(L) ==
    \A k \in 1..Len(L.vss_scheme_vec) :
        /\ validate_share(L.vss_scheme_vec[k], L.party_shares[k],
                          L.party_num_int)
        /\ L.vss_scheme_vec[k].commitments[1] = L.point_vec[k]
ProofsValid(vec) == \A k \in 1..Len(vec) : DLogVerify(vec[k])
FullVectors(L) ==
    /\ Len(L.cc_proof_vec) = cfg.n /\ Len(L.bc1_vec) = cfg.n
    /\ Len(L.point_vec) = cfg.n /\ Len(L.blind_vec) = cfg.n
    /\ Len(L.party_shares) = cfg.n /\ Len(L.vss_scheme_vec) = cfg.n
    /\ Len(L.dlog_proof_vec) = cfg.n

\* C2: a bundle is written only by a run that is complete, with the
\* commitment check, the share check and the proofs of round 0 and of
\* round 5 all passed on party_count elements; a run that holds a vector
\* failing its check, or whose poll timed out, is aborted; an aborted run
\* has written no bundle.
C2_NoPartialSuccess ==
    cfg.pc = "on" =>
      \A p \in DOMAIN party :
        LET L == party[p]
        IN  /\ Persisted(L) =>
                /\ L.pc = "done"
                /\ FullVectors(L)
                /\ CommitmentsOpen(L) /\ SharesValid(L)
                /\ ProofsValid(L.cc_proof_vec) /\ ProofsValid(L.dlog_proof_vec)
            /\ ~(/\ CommitmentsOpen(L) /\ SharesValid(L)
                 /\ ProofsValid(L.cc_proof_vec) /\ ProofsValid(L.dlog_proof_vec))
                  => L.pc = "panic"
            /\ L.pc = "panic" => ~Persisted(L)
            /\ L.pc = "done" => Persisted(L)

\* One party has written its bundle; its peer, which read an altered proof
\* in round 5, has aborted without one.
C2_Witness ==
    /\ cfg.pc = "on" /\ cfg.n = 2
    /\ relay.tampered
    /\ Persisted(party[1])
    /\ party[2].panic = "bad dlog proof"
    /\ ~ProofsValid(party[2].dlog_proof_vec)
    /\ ~Persisted(party[2])

\* C5: without an altered payload, every vector a party has assembled
\* from the collected answers and its own contribution has party_count
\* elements, the one at index k (counted from 0) being the contribution of
\* ordinal k + 1, the party's own at index party_num_int - 1.
C5_OrdinalOrder ==
    (cfg.pc = "on" /\ ~relay.tampered) =>
      \A p \in DOMAIN party :
        LET L == party[p]
            self == L.party_num_int
            Holds(vec, Contribution(_)) ==
                vec # <<>> =>
                    /\ Len(vec) = cfg.n
                    /\ \A k \in 0..(cfg.n - 1) :
                          /\ Joined(k + 1)
                          /\ vec[k + 1] = Contribution(Owner(k + 1))
        IN  /\ Holds(L.bc1_vec, LAMBDA o : o.bc_i)
            /\ Holds(L.point_vec, LAMBDA o : o.decom_i.y_i)
            /\ Holds(L.blind_vec, LAMBDA o : o.decom_i.blind_factor)
            /\ Holds(L.party_shares, LAMBDA o : o.secret_shares[self])
            /\ Holds(L.vss_scheme_vec, LAMBDA o : o.vss_scheme)
            /\ Holds(L.dlog_proof_vec, LAMBDA o : o.dlog_proof)
            /\ L.bc1_vec # <<>> => L.bc1_vec[(self - 1) + 1] = L.bc_i
            /\ L.dlog_proof_vec # <<>> =>
                  L.dlog_proof_vec[(self - 1) + 1] = L.dlog_proof

\* The middle ordinal of three has assembled all six vectors.
C5_Witness ==
    /\ cfg.pc = "on" /\ cfg.n = 3 /\ ~relay.tampered
    /\ party[2].party_num_int = 2
    /\ Len(party[2].dlog_proof_vec) = 3
    /\ party[2].party_shares
          = <<party[1].secret_shares[2], party[2].secret_shares[2],
              party[3].secret_shares[2]>>
    /\ party[1].party_keys.y_i # party[3].party_keys.y_i


\* C8: a request the relay does not answer (signup, broadcast, sendp2p or a
\* get of a poll) ends the run at once and leaves no bundle; a poll goes on
\* asking for the same ordinal exactly when the relay answered that the
\* entry is not there, and such an answer is followed by nothing but the
\* next get for that ordinal or the timeout.
C8_OnlyNotFoundAbsorbed ==
    /\ [](cfg.pc = "on" =>
            \A p \in DOMAIN party :
                party[p].last = "unreachable" =>
                    /\ party[p].pc = "panic"
                    /\ party[p].panic = "unwrap on None"
                    /\ ~Persisted(party[p]))
    /\ [][cfg.pc = "on" =>
            \A p \in DOMAIN party :
                (party[p].pc = "poll" /\ party'[p] # party[p]) =>
                    LET a == party[p]
                        b == party'[p]
                        again == /\ b.pc = "poll" /\ b.round = a.round
                                 /\ b.i = a.i /\ b.ans_vec = a.ans_vec
                    IN  /\ again => b.last = "not_found"
                        /\ b.last = "not_found" =>
                              \/ again
                              \/ b.pc = "panic" /\ b.panic = "Polling timed out!"
                        /\ b.last = "unreachable" => b.pc = "panic"]_vars

\* The first of two parties found the relay unreachable while polling for
\* round1 and is gone; the second is told that the round2 entry of the
\* first is not there, and polls on.
C8_Witness ==
    /\ cfg.pc = "on" /\ cfg.n = 2
    /\ party[1].pc = "panic" /\ party[1].last = "unreachable"
    /\ party[1].round = "round1" /\ party[1].i = 2
    /\ party[2].pc = "poll" /\ party[2].last = "not_found"
    /\ party[2].round = "round2" /\ party[2].i = 1

\* C10: when no payload was altered, the chain code a party has computed
\* is the sum of the scalars of all the parties, for a cohort of one as for
\* a larger one and whatever the order of the writes.
C10_ChainCodeAgreement ==
    (cfg.pc = "on" /\ ~relay.tampered) =>
        \A p \in DOMAIN party :
            party[p].chain_codes # <<>> =>
                /\ \A k \in 1..cfg.n : Joined(k)
                /\ party[p].chain_code
                      = SumScalars([k \in 1..cfg.n |-> Owner(k).chain_code_i])

\* Three parties hold the same chain code, the sum of three scalars.
C10_Witness ==
    /\ cfg.pc = "on" /\ cfg.n = 3 /\ ~relay.tampered
    /\ \A p \in 1..3 : party[p].chain_codes # <<>>
    /\ party[1].chain_code = party[3].chain_code
    /\ party[2].chain_code
          = (party[1].chain_code_i + party[2].chain_code_i
             + party[3].chain_code_i) % GroupOrder
    /\ party[2].chain_code # party[2].chain_code_i

\* A party whose own round 0 proof is for the scalar it reveals.
HonestProver(L) == L.cc_proof # <<>> /\ L.cc_proof.pk = PointOf(L.chain_code_i)

\* C11: with a relay that alters nothing, an honest party never completes
\* the chain-code agreement holding, for some ordinal, a revealed scalar
\* that is not the value the round 0 proof of that ordinal was made for:
\* the proof of a party that reveals another value is rejected as invalid.
C11_MismatchRejected ==
    (cfg.pc = "on" /\ ~relay.tampered) =>
        \A p \in DOMAIN party :
            (HonestProver(party[p]) /\ party[p].chain_codes # <<>>) =>
                \A k \in 1..Len(party[p].chain_codes) :
                    party[p].cc_proof_vec[k].pk
                        = PointOf(party[p].chain_codes[k])

\* The fields of the value a party writes in a broadcast round.
EnvelopeFields(round) ==
    CASE round \in {"round0_chain_code", "round5"} ->
             {"pk", "pk_t_rand_commitment", "challenge_response"}
      [] round = "round1_chain_code" -> {"curve", "scalar"}
      [] round = "round1" -> {"com"}
      [] round = "round2" -> {"blind_factor", "y_i"}
      [] round = "round4" -> {"parameters", "commitments"}

\* The transport key ordinal i derives for ordinal j.
PairKey(i, j) == EncKey(Owner(j).decom_i.y_i, Owner(i).party_keys.private_key)

\* C14: what the relay holds of round3 is, for every pair, a sealed payload
\* (ciphertext and nonce) and nothing else: it opens under the key of the
\* pair to the share, and no byte of it is the byte of the share; the
\* values of the other rounds have the public fields of their round only:
\* none carries a private scalar, a transport key or a share.
C14_SharesSealed ==
    cfg.pc = "on" =>
      /\ \A k \in 1..cfg.n, R \in RoundNames \ {"round3"} :
            LET key == BroadcastKey(k, R, relay.uuid)
            IN  key \in DOMAIN store =>
                  DOMAIN FromJson(store[key]) = EnvelopeFields(R)
      /\ \A i, j \in 1..cfg.n :
            LET key == P2PKey(i, j, "round3", relay.uuid)
            IN  key \in DOMAIN store =>
                  LET v == FromJson(store[key])
                      share == ToBytes(Owner(i).secret_shares[j])
                  IN  /\ DOMAIN v = {"ciphertext", "tag"}
                      /\ DOMAIN v.ciphertext = {"body", "gtag"}
                      /\ Len(v.tag) = NONCE_LEN
                      /\ ~relay.tampered =>
                            /\ Len(v.ciphertext.body) = Len(share)
                            /\ \A x \in 1..Len(share) :
                                  v.ciphertext.body[x] # share[x]
                            /\ aes_decrypt(PairKey(i, j), v) = [Ok |-> share]

\* Three parties have written their six round3 envelopes and gone on to
\* the end of the run.
C14_Witness ==
    /\ cfg.pc = "on" /\ cfg.n = 3 /\ ~relay.tampered
    /\ \A i, j \in 1..3 :
          i # j => P2PKey(i, j, "round3", relay.uuid) \in DOMAIN store
    /\ \A k \in 1..3 :
          BroadcastKey(k, "round5", relay.uuid) \in DOMAIN store
    /\ \E i, j \in 1..3 :
          i # j /\ Owner(i).secret_shares[j] # Owner(j).secret_shares[i]

\* The rounds in the order run_keygen goes through them.
RoundSeq == <<"round0_chain_code", "round1_chain_code", "round1", "round2",
              "round3", "round4", "round5">>
RoundIndex(round) ==
    IF round = "" THEN 0 ELSE CHOOSE m \in 1..Len(RoundSeq) : RoundSeq[m] = round

\* Ordinal k has written an envelope of the round.
WroteRound(k, round) ==
    IF round = "round3"
    THEN \E j \in 1..cfg.n : P2PKey(k, j, round, relay.uuid) \in DOMAIN store
    ELSE BroadcastKey(k, round, relay.uuid) \in DOMAIN store
\* Every peer of ordinal k has written its envelope of the round (for k).
PeersWrote(k, round) ==
    \A j \in (1..cfg.n) \ {k} :
        IF round = "round3"
        THEN P2PKey(j, k, round, relay.uuid) \in DOMAIN store
        ELSE BroadcastKey(j, round, relay.uuid) \in DOMAIN store
\* The party holds what it assembles from the answers of the round.
Collected(L, round) ==
    cfg.n = Len(CASE round = "round0_chain_code" -> L.cc_proof_vec
                  [] round = "round1_chain_code" -> L.chain_codes
                  [] round = "round1" -> L.bc1_vec
                  [] round = "round2" -> L.point_vec
                  [] round = "round3" -> L.party_shares
                  [] round = "round4" -> L.vss_scheme_vec
                  [] round = "round5" -> L.dlog_proof_vec)

\* C16: a party goes through the rounds in their order, one at a time (a
\* party without peers has no round3) and never back; an envelope of a
\* round is on the relay only when every peer of its writer has written
\* the envelope of the round before and the writer has collected them.
C16_RoundsInOrder ==
    /\ [](cfg.pc = "on" =>
            \A k \in 1..cfg.n, m \in 2..Len(RoundSeq) :
                WroteRound(k, RoundSeq[m]) =>
                    /\ PeersWrote(k, RoundSeq[m - 1])
                    /\ Collected(Owner(k), RoundSeq[m - 1]))
    /\ [][cfg.pc = "on" =>
            \A p \in DOMAIN party :
                LET a == RoundIndex(party[p].round)
                    b == RoundIndex(party'[p].round)
                IN  \/ b = a
                    \/ b = a + 1
                    \/ cfg.n = 1 /\ a = 4 /\ b = 6]_vars

\* The last of three parties writes its round2 decommitment; the other two
\* wrote their round1 commitments before.
C16_Witness ==
    /\ cfg.pc = "on" /\ cfg.n = 3
    /\ WroteRound(3, "round2") /\ ~WroteRound(1, "round2")
    /\ ~WroteRound(2, "round2")
    /\ PeersWrote(3, "round1")
    /\ Len(Owner(3).bc1_vec) = 3

\* C17: the round1_chain_code envelope of a party is on the relay only when
\* the round 0 proofs of all the parties were written and the party holds
\* party_count proofs that all verify; a party that holds a proof that does
\* not verify has aborted with "bad dlog proof for chain code" and has not
\* written that envelope.
C17_RevealAfterProofs ==
    cfg.pc = "on" =>
      \A p \in DOMAIN party :
        LET L == party[p]
            revealed == BroadcastKey(L.party_num_int, "round1_chain_code",
                                     relay.uuid) \in DOMAIN store
        IN  /\ revealed =>
                /\ \A j \in 1..cfg.n : WroteRound(j, "round0_chain_code")
                /\ Len(L.cc_proof_vec) = cfg.n
                /\ ProofsValid(L.cc_proof_vec)
            /\ (L.cc_proof_vec # <<>> /\ ~ProofsValid(L.cc_proof_vec)) =>
                /\ L.pc = "panic"
                /\ L.panic = "bad dlog proof for chain code"
            /\ L.panic = "bad dlog proof for chain code" => ~revealed

\* The relay altered the proof of the second party: the first has aborted
\* without revealing its scalar, the second has revealed its own.
C17_Witness ==
    /\ cfg.pc = "on" /\ cfg.n = 2 /\ relay.tampered
    /\ party[1].panic = "bad dlog proof for chain code"
    /\ ~DLogVerify(party[1].cc_proof_vec[2])
    /\ ~WroteRound(1, "round1_chain_code")
    /\ WroteRound(2, "round1_chain_code")

\* The transport key a party holds for the peer of an ordinal.
KeyFor(L, peer) ==
    L.enc_keys[IF peer < L.party_num_int THEN peer ELSE peer - 1]

\* C18: with a relay that alters nothing, for every two ordinals i and j
\* the key i holds for j is the key j holds for i, 32 bytes made of the
\* x-coordinate of the product of one's private scalar and the other's
\* point; the round3 envelope from i to j opens under the key j holds for
\* i to the share i computed for j, which is the share j places at index
\* i - 1.
C18_PairKeys ==
    (cfg.pc = "on" /\ ~relay.tampered) =>
      \A i, j \in 1..cfg.n :
        (i # j /\ Joined(i) /\ Joined(j)) =>
          LET Li == Owner(i)
              Lj == Owner(j)
              key == P2PKey(i, j, "round3", relay.uuid)
          IN  /\ (Li.enc_keys # <<>> /\ Lj.enc_keys # <<>>) =>
                  /\ KeyFor(Li, j) = KeyFor(Lj, i)
                  /\ Len(KeyFor(Li, j)) = AES_KEY_BYTES_LEN
                  /\ FromBytes(KeyFor(Lj, i))
                        = x_coord(PointMul(Li.party_keys.y_i,
                                           Lj.party_keys.private_key))
              /\ (key \in DOMAIN store /\ Lj.enc_keys # <<>>) =>
                  aes_decrypt(KeyFor(Lj, i), FromJson(store[key]))
                      = [Ok |-> ToBytes(Li.secret_shares[j])]
              /\ Lj.party_shares # <<>> =>
                  Lj.party_shares[(i - 1) + 1] = Li.secret_shares[j]

\* Three parties hold each other's shares; the first has one key for the
\* second and another for the third.
C18_Witness ==
    /\ cfg.pc = "on" /\ cfg.n = 3 /\ ~relay.tampered
    /\ \A p \in 1..3 : Len(party[p].party_shares) = 3
    /\ party[1].enc_keys[1] # party[1].enc_keys[2]
    /\ party[2].enc_keys[1] = party[1].enc_keys[1]
    /\ party[3].party_shares[1] # party[3].party_shares[2]

----------------------------------------------------------------------------
(* Claims about signup (SignupSpec).                                       *)

\* C12: signup returns only with a room uuid that is not empty, and does
\* not stay in its loop: while it is there, the relay has answered with an
\* empty room uuid and the same joined count for no more whole seconds than
\* the timeout, and unless the count changes the call ends, by a return or
\* by a fatal failure.
C12_SignupEnds ==
    /\ [](signing.pc = "returned" => signing.uuid # "")
    /\ [](signing.pc = "loop" =>
            /\ signing.heard.room_uuid = ""
            /\ as_secs(signing.still) <= signing.timeout)
    /\ \A c \in 0..MaxChanges :
          (signing.pc = "loop" /\ signing.changes = c)
             ~> (signing.pc \in {"returned", "panic"} \/ signing.changes # c)

\* The relay went on answering with an empty room uuid and the count it
\* reported first until the timeout had passed.
C12_Witness ==
    /\ signing.pc = "panic"
    /\ signing.panic = "Could not get room uuid"
    /\ signing.changes = 0
    /\ signing.timeout = 1
    /\ signing.still = 2000

\* C13: the order signup holds, and returns, is the party_order of the
\* last answer it received: an answer that carries another order than the
\* one held replaces it, up to and including the answer that brings the
\* room uuid.
C13_LatestOrder ==
    (signing.pc \in {"loop", "returned"}
        \/ signing.panic = "Could not get room uuid")
      => signing.number = signing.heard.party_order

\* The relay renumbered the party while the room filled.
C13_Witness ==
    /\ signing.pc = "returned"
    /\ signing.uuid = "room1"
    /\ signing.first_order = 1
    /\ signing.number = 2
    /\ signing.changes = 2

\* C19: a pass of the loop that hears a larger joined count than the one
\* before restarts the timer and does not end in the timeout failure; the
\* timeout failure is raised only when the count has stayed the same for
\* more whole seconds than the timeout.
C19_ResetOnGrowth ==
    /\ [][(/\ signing.pc = "loop"
           /\ signing'.changes = signing.changes + 1
           /\ signing'.heard.total_joined > signing.heard.total_joined)
            => (/\ signing'.elapsed = 0
                /\ signing'.last_total_joined = signing'.heard.total_joined
                /\ signing'.panic # "Could not get room uuid")]_vars
    /\ [](signing.panic = "Could not get room uuid"
            => as_secs(signing.still) > signing.timeout)

\* The count grew twice, each time after most of a one-second window had
\* passed, and the call is still waiting.
C19_Witness ==
    /\ signing.pc = "loop"
    /\ signing.timeout = 0
    /\ signing.changes = 2
    /\ signing.heard.total_joined = 3
    /\ signing.elapsed = 900

----------------------------------------------------------------------------
(* Claims about the key-share file (BundleSpec).                           *)

----------------------------------------------------------------------------
(* Claims about the party's own ordinal (Spec).                            *)

\* The party has left the send loop of round3 behind.
SentRound3(L) ==
    \/ L.round = "round3" /\ L.pc = "poll"
    \/ L.round \in {"round4", "round5"}

\* C22: in round3 a party writes each envelope once, under a key that was
\* not on the relay, and never one addressed to itself; when it has left
\* the send loop there is one envelope for each of the party_count - 1
\* other ordinals; no poll of any round asks for a key whose sender is the
\* party itself; the share vector has party_count entries, the one at
\* index self_ordinal - 1 being the share the party computed for itself.
C22_NoSelfRoundTrip ==
    /\ [](cfg.pc = "on" =>
            \A p \in DOMAIN party :
                LET L == party[p]
                    me == L.party_num_int
                IN  /\ P2PKey(me, me, "round3", relay.uuid) \notin DOMAIN store
                    /\ L.pc \in {"send", "poll"} => L.i # me
                    /\ SentRound3(L) =>
                          {j \in 1..cfg.n :
                              P2PKey(me, j, "round3", L.uuid) \in DOMAIN store}
                             = (1..cfg.n) \ {me}
                    /\ L.party_shares # <<>> =>
                          /\ Len(L.party_shares) = cfg.n
                          /\ L.party_shares[(me - 1) + 1]
                                = L.secret_shares[(me - 1) + 1])
    /\ [][cfg.pc = "on" =>
            \A p \in DOMAIN party :
                (party[p].round = "round3" /\ party[p].pc = "send"
                    /\ party'[p] # party[p] /\ party'[p].pc # "panic") =>
                    LET key == P2PKey(party[p].party_num_int, party[p].i,
                                      "round3", party[p].uuid)
                    IN  /\ key \notin DOMAIN store
                        /\ DOMAIN store' = DOMAIN store \cup {key}
                        /\ \A k \in DOMAIN store : store'[k] = store[k]]_vars

\* The second of three parties has assembled its share vector: it wrote to
\* ordinals 1 and 3 and collected from them, and holds its own share in
\* the second place.
C22_Witness ==
    /\ cfg.pc = "on" /\ cfg.n = 3
    /\ Joined(2) /\ Len(Owner(2).party_shares) = 3
    /\ Owner(2).party_shares[2] = Owner(2).secret_shares[2]
    /\ Len(Owner(2).ans_vec) = 2 \/ Owner(2).round # "round3"
    /\ P2PKey(2, 1, "round3", relay.uuid) \in DOMAIN store
    /\ P2PKey(2, 3, "round3", relay.uuid) \in DOMAIN store
    /\ P2PKey(2, 2, "round3", relay.uuid) \notin DOMAIN store

\* The keys a party of ordinal k writes in a round of session uuid.
KeysOfRound(k, round, uuid) ==
    IF round = "round3"
    THEN {P2PKey(k, j, round, uuid) : j \in (1..cfg.n) \ {k}}
    ELSE {BroadcastKey(k, round, uuid)}

\* The relay has answered the party's keygen_signup.
Assigned(L) == L.party_num_int # 0

\* C23: the ordinal and the session uuid keygen_signup returned never
\* change afterwards and no other party of the session holds the ordinal;
\* every envelope a party writes, in the two chain-code rounds as in the
\* five others, is under a key of that ordinal and that uuid, every value
\* it collects is the one held under the key of the polled ordinal, its own
\* ordinal as recipient of round3, and that uuid; the bundle it persists
\* records that ordinal.
C23_AssignmentFixed ==
    /\ [](cfg.pc = "on" =>
            /\ \A p \in DOMAIN party :
                  LET L == party[p]
                  IN  /\ Assigned(L) =>
                            /\ L.party_num_int \in 1..relay.next
                            /\ L.uuid = relay.uuid
                            /\ L.party_keys.party_index = L.party_num_int
                            /\ \A q \in DOMAIN party :
                                  party[q].party_num_int = L.party_num_int
                                      => q = p
                      /\ Persisted(L) =>
                            FromJson(L.keys_file)[4] = L.party_num_int
            /\ \A key \in DOMAIN store :
                  \E k \in 1..relay.next, m \in 1..Len(RoundSeq) :
                      key \in KeysOfRound(k, RoundSeq[m], relay.uuid))
    /\ [][cfg.pc = "on" =>
            \A p \in DOMAIN party :
                LET L == party[p]
                    L1 == party'[p]
                IN  /\ Assigned(L) =>
                          /\ L1.party_num_int = L.party_num_int
                          /\ L1.uuid = L.uuid
                    /\ (L1 # L /\ store' # store) =>
                          /\ (DOMAIN store') \ (DOMAIN store)
                                \subseteq KeysOfRound(L.party_num_int, L.round,
                                                      L.uuid)
                          /\ \E key \in KeysOfRound(L.party_num_int, L.round,
                                                    L.uuid) :
                                /\ key \in DOMAIN store'
                                /\ \A k \in (DOMAIN store) \ {key} :
                                      k \in DOMAIN store' /\ store'[k] = store[k]
                                /\ key \in DOMAIN store =>
                                      store'[key] # store[key]
                    /\ (L.pc = "poll" /\ L1.pc = "poll" /\ L1.round = L.round
                           /\ L1.i # L.i) =>
                          LET key == IF L.round = "round3"
                                     THEN P2PKey(L.i, L.party_num_int, L.round,
                                                 L.uuid)
                                     ELSE BroadcastKey(L.i, L.round, L.uuid)
                          IN  /\ key \in DOMAIN store
                              /\ L1.ans_vec = Append(L.ans_vec, store[key])]_vars

\* Three parties have persisted their bundles, each with its own ordinal,
\* after writing under that ordinal in every round.
C23_Witness ==
    /\ cfg.pc = "on" /\ cfg.n = 3
    /\ \A p \in 1..3 :
          /\ Persisted(party[p])
          /\ FromJson(party[p].keys_file)[4] = party[p].party_num_int
          /\ \A m \in 1..Len(RoundSeq) :
                KeysOfRound(party[p].party_num_int, RoundSeq[m], relay.uuid)
                    \subseteq DOMAIN store
    /\ {party[p].party_num_int : p \in 1..3} = 1..3

\* The party is in the poll of a round and the envelope it asks for is not
\* on the relay.
Blocked(L) ==
    /\ L.pc = "poll"
    /\ (IF L.round = "round3"
        THEN P2PKey(L.i, L.party_num_int, L.round, L.uuid)
        ELSE BroadcastKey(L.i, L.round, L.uuid)) \notin DOMAIN store

\* C24: a party that polls in a round has written its own envelopes of the
\* round; with honest parties and a reachable relay no set of parties wait
\* on each other: a party that is waited for is never itself waiting for a
\* party of the set nor has it ended its run, and from some point on no
\* party is in a poll any more.
C24_NoCyclicWait ==
    /\ [](\A p \in DOMAIN party :
            LET L == party[p]
            IN  L.pc = "poll" =>
                   KeysOfRound(L.party_num_int, L.round, L.uuid)
                       \subseteq DOMAIN store)
    /\ [](\A S \in (SUBSET (DOMAIN party)) \ {{}} :
            ~ \A p \in S :
                 /\ Blocked(party[p])
                 /\ \/ \E q \in S : party[q].party_num_int = party[p].i
                    \/ /\ Joined(party[p].i)
                       /\ Owner(party[p].i).pc \in {"done", "panic"})
    /\ <>[](\A p \in DOMAIN party : party[p].pc # "poll")

\* Three parties are all in the poll of round2, each waiting for another,
\* with all three round2 envelopes on the relay.
C24_Witness ==
    /\ cfg.pc = "on" /\ cfg.n = 3
    /\ \A p \in 1..3 :
          /\ party[p].pc = "poll" /\ party[p].round = "round2"
          /\ party[p].ans_vec = <<>>
          /\ BroadcastKey(p, "round2", relay.uuid) \in DOMAIN store

\* C25: the request of the first call carries an empty party_uuid; every
\* request of the loop carries the party_uuid of the first answer, also
\* when the answer before it returned another one.
C25_RequestUuid ==
    /\ signing.pc = "call" => signing.sent = "none"
    /\ (signing.pc # "call" /\ signing.overwrote = "none") =>
          /\ signing.sent = ""
          /\ signing.heard # <<>> =>
                signing.party_uuid = signing.heard.party_uuid
    /\ signing.overwrote # "none" =>
          /\ signing.sent = signing.party_uuid
          /\ signing.party_uuid # ""
          /\ signing.party_uuid = signing.first_uuid

\* A request of the loop carried the party_uuid of the first answer, p1,
\* after an answer had returned p2.
C25_Witness ==
    /\ signing.pc = "loop"
    /\ signing.first_uuid = "p1"
    /\ signing.overwrote = "p2"
    /\ signing.sent = "p1"
    /\ signing.heard.party_uuid = "p2"

=============================================================================
